---- MODULE Spec2Model ----
(***************************************************************************)
(* State-machine model of the MGM FUSE metadata broker of EOS              *)
(* (mgm/FuseServer.cc, mgm/ZMQ.cc): the client registry, the capability    *)
(* store, the per-inode lock table, the broadcast helpers and the SET and  *)
(* DELETE requests on the namespace.                                       *)
(*                                                                         *)
(* Every std::map of the program is a function whose DOMAIN is the key     *)
(* set of the map, so that the creation of a key by operator[] and the     *)
(* erasure of a key are both visible.  Time is the integer number of       *)
(* seconds of time(NULL).                                                  *)
(***************************************************************************)
EXTENDS Integers, Sequences, FiniteSets, TLC

VARIABLES
  now,              \* wall clock in seconds (time(NULL), Timing::GetTimeSpec)
  mMap,             \* Clients::mMap: transport identity -> session
  mUUIDView,        \* Clients::mUUIDView: client uuid -> transport identity
  lockmap,          \* Lock::lockmap: inode -> lock tracker
  flushmap,         \* Flush::flushmap: inode -> (client -> expiry stamp)
  mCaps,            \* Caps::mCaps: auth-id -> cap
  mClientCaps,      \* Caps::mClientCaps: client id -> set of auth-ids
  mClientInoCaps,   \* Caps::mClientInoCaps: client id -> set of inodes
  mInodeCaps,       \* Caps::mInodeCaps: inode -> set of auth-ids
  mTimeOrderedCap,  \* Caps::mTimeOrderedCap: multimap vtime -> auth-id, as a sorted sequence
  received,         \* number of messages taken from the socket (heartbeats, requests, commands)
  waiting,          \* the SETLKW request inside LockTracker::setlk between two tries
  lockreq,          \* the lock request the last answer of SETLK or SETLKW belongs to
  eosDirectoryService, \* gOFS->eosDirectoryService: container id -> container
  eosFileService,   \* gOFS->eosFileService: file id -> file
  dirStore,         \* the containers as updateStore wrote them last
  lastCid,          \* the container id createContainer gave last
  lastFid,          \* the file id createFile gave last
  pending,          \* the hardlink creation between lock.Release() and its last calls
  history,          \* hardlink creations that succeeded, by target, and whether a DELETE did
  thread,           \* thread -> the function it runs, its next call, the broadcasts it caused and queued
  mutex,            \* lock -> its writer and its readers
  outofquota,       \* MonitorCaps' outofquota: auth-id -> the time it was found out of quota
  flushcheck,       \* Flush::hasFlush between two checks: its inode and the checks it made
  last              \* observation of the operation that ran last: its inputs, result and messages

vars == <<now, received, mMap, mUUIDView, lockmap, flushmap, mCaps, mClientCaps,
          mClientInoCaps, mInodeCaps, mTimeOrderedCap, waiting, lockreq,
          eosDirectoryService, eosFileService, dirStore, lastCid, lastFid, pending,
          history, thread, mutex, outofquota, flushcheck, last>>

lkVars == <<waiting, lockreq>>
\* the variables the registry and the capability specification leave alone
nsVars == <<eosDirectoryService, eosFileService, dirStore, lastCid, lastFid, pending,
            history>>
thVars == <<thread, mutex>>
\* the state of the loops that sleep between their steps
qtVars == <<outofquota, flushcheck>>
extVars == <<lkVars, nsVars, thVars, qtVars>>

regVars == <<mMap, mUUIDView>>
capVars == <<mCaps, mClientCaps, mClientInoCaps, mInodeCaps, mTimeOrderedCap>>

----------------------------------------------------------------------------
(* Bounds of the model *)

\* largest value of the clock in the registry specification
MaxTime == 3
\* largest inode number
MaxInode == 2
\* number of messages (heartbeats, requests, commands) in the capability specification
MaxMessages == 4
\* the clock of the capability specification: MaxCapSteps steps of TimeStep seconds
MaxCapSteps == 1
TimeStep == 240
\* the clock of the quota specification: MaxQuotaSteps steps of QuotaTimeStep seconds
MaxQuotaSteps == 3
\* number of messages (heartbeats, requests) in the quota specification
MaxQuotaMessages == 4
QuotaTimeStep == 1300
\* the flush specification: the seconds a flush entry lives, and the end of its clock
FlushLifetime == 2
MaxFlushTime == 3
\* the lease a heartbeat asks for, next to none
ShortLease == 60
\* the lifetime extension a heartbeat asks for, and the latest expiry it may reach
ExtDelta == 100
MaxVtime == 160

\* lock requests: process ids, first bytes and lengths on the wire
MaxPid == 1
MaxStart == 1
MaxLen == 1

\* the namespace: the ids of containers and files end here
MaxCid == 6
MaxFid == 4
\* the requests of the namespace specification
MaxNsMessages == 3

\* heartbeat windows of the registry, in clock units, HB_WIN < OFFLINE_WIN < REMOVE_WIN
HeartBeatWindow == 0
HeartBeatOfflineWindow == 1
HeartBeatRemoveWindow == 2

----------------------------------------------------------------------------
(* Program constants *)

X_OK == 1
W_OK == 2
R_OK == 4
D_OK == 8
M_OK == 16
C_OK == 32
SA_OK == 64
U_OK == 128
SU_OK == 256
S_IFDIR == 16384
PROTOCOLV2 == 2
RevocationMargin == 60
DefaultLeaseTime == 300
MaxLeaseTime == 604800
\* caps LS adds for the children of one listing
ImplicitCapLimit == 16
\* an entry of outofquota is dropped when it is older than this
OutOfQuotaLifetime == 3600
\* checks of one call of hasFlush
HasFlushChecks == 8

Identities == {"A", "B"}
UUIDs == {"u1", "u2"}
AuthIds == {"a1", "a2", "a3"}
Inodes == 1 .. MaxInode

\* std::map<std::string, ...> iterates its keys in this order
IdentityOrder == <<"A", "B">>

Rank(id) == CHOOSE i \in 1 .. Len(IdentityOrder) : IdentityOrder[i] = id

----------------------------------------------------------------------------
(* std::map helpers *)

MapPut(m, k, v) == [x \in (DOMAIN m) \cup {k} |-> IF x = k THEN v ELSE m[x]]

MapErase(m, k) == [x \in (DOMAIN m) \ {k} |-> m[x]]

MapEraseAll(m, ks) == [x \in (DOMAIN m) \ ks |-> m[x]]

\* operator[] on a map of sets: the value, a fresh empty set when the key is new
SetAt(m, k) == IF k \in DOMAIN m THEN m[k] ELSE {}

EmptyMap == [x \in {} |-> {}]

----------------------------------------------------------------------------
(* Client registry *)

\* a default constructed heartbeat inside a default constructed Client, whose
\* state is PENDING until a sweep has set it
DefaultClient ==
  [uuid |-> "", clock |-> 0, protversion |-> 0, leasetime |-> 0,
   shutdown |-> FALSE, state |-> "PENDING"]

\* seconds since the heartbeat was stamped
HeartbeatAge(clock) == now - clock

\* Clients::leasetime
leasetime(uuid) ==
  LET lt == IF uuid \in DOMAIN mUUIDView /\ mUUIDView[uuid] \in DOMAIN mMap
            THEN mMap[mUUIDView[uuid]].leasetime
            ELSE 0
  IN IF lt > MaxLeaseTime THEN MaxLeaseTime ELSE lt

----------------------------------------------------------------------------
(* Lock table *)

EmptyTracker == [rlocks |-> {}, wlocks |-> {}]

\* LockTracker::inuse
inuse(t) == t.rlocks # {} \/ t.wlocks # {}

\* LockTracker::removelk(owner)
removelkOwner(t, owner) ==
  [rlocks |-> {r \in t.rlocks : r.owner # owner},
   wlocks |-> {r \in t.wlocks : r.owner # owner}]

\* Lock::purgeLocks
purgeLocks(lm) == [i \in {j \in DOMAIN lm : inuse(lm[j])} |-> lm[i]]

\* Lock::dropLocks(owner)
dropLocks(lm, owner) ==
  purgeLocks([i \in DOMAIN lm |-> removelkOwner(lm[i], owner)])

\* dropLocks for every owner of a set, one call after the other
dropLocksAll(lm, owners) ==
  purgeLocks([i \in DOMAIN lm |->
    [rlocks |-> {r \in lm[i].rlocks : r.owner \notin owners},
     wlocks |-> {r \in lm[i].wlocks : r.owner \notin owners}]])

\* end of a byte range, -1 standing for infinity
Intersects(s1, l1, s2, l2) ==
  /\ (l2 = -1 \/ s1 < s2 + l2)
  /\ (l1 = -1 \/ s2 < s1 + l1)

SameHolder(r, pid, owner) == r.pid = pid /\ r.owner = owner

\* overlap policy of LockTracker::setlk
Conflicts(t, type, start, len, pid, owner) ==
  \E r \in (IF type = "WRLCK" THEN t.rlocks \cup t.wlocks
            ELSE IF type = "RDLCK" THEN t.wlocks ELSE {}) :
    /\ ~SameHolder(r, pid, owner)
    /\ Intersects(start, len, r.start, r.len)

\* the tracker after LockTracker::setlk succeeded
Installed(t, type, start, len, pid, owner) ==
  LET mine(r) == SameHolder(r, pid, owner) /\ Intersects(start, len, r.start, r.len)
      rng == [start |-> start, len |-> len, pid |-> pid, owner |-> owner]
      rl == {r \in t.rlocks : ~mine(r)}
      wl == {r \in t.wlocks : ~mine(r)}
  IN [rlocks |-> IF type = "RDLCK" THEN rl \cup {rng} ELSE rl,
      wlocks |-> IF type = "WRLCK" THEN wl \cup {rng} ELSE wl]

\* Lock::getLocks creates the tracker of an inode on first use
getLocks(lm, ino) == IF ino \in DOMAIN lm THEN lm ELSE MapPut(lm, ino, EmptyTracker)

\* every owner of a lock in the table
LockOwners ==
  {r.owner : r \in UNION {lockmap[i].rlocks \cup lockmap[i].wlocks : i \in DOMAIN lockmap}}

----------------------------------------------------------------------------
(* Flush tracker *)

\* Flush::expireFlush: entries whose stamp is not in the future are erased
expireFlush(fm) ==
  LET kept(i) == {c \in DOMAIN fm[i] : now - fm[i][c] < 0}
  IN [i \in {j \in DOMAIN fm : kept(j) # {}} |-> [c \in kept(i) |-> fm[i][c]]]

\* operator[] on the flush map: the entries of an inode, none when the key is new
FlushAt(fm, id) == IF id \in DOMAIN fm THEN fm[id] ELSE EmptyMap

\* the flush map with the entries of an inode, whose key is erased with its last entry
FlushPut(fm, id, entries) ==
  IF DOMAIN entries = {} THEN MapErase(fm, id) ELSE MapPut(fm, id, entries)

\* Flush::beginFlush: flush_info_t::Add stamps the entry with its expiry
beginFlush(fm, id, client) ==
  MapPut(fm, id, MapPut(FlushAt(fm, id), client, now + FlushLifetime))

\* an endFlush that leaves the key of the inode in the map
endFlushKeepKey(fm, id, client) == MapPut(fm, id, MapErase(FlushAt(fm, id), client))

\* Flush::endFlush: flush_info_t::Remove answers true
endFlush(fm, id, client) == FlushPut(fm, id, MapErase(FlushAt(fm, id), client))

\* Flush::validateFlush: [has, flushmap]
validateFlush(fm, id) ==
  LET kept == {c \in DOMAIN FlushAt(fm, id) : now - fm[id][c] < 0}
  IN [has |-> kept # {},
      flushmap |-> IF id \in DOMAIN fm
                   THEN FlushPut(fm, id, [c \in kept |-> fm[id][c]])
                   ELSE fm]

\* Flush::hasFlush outside its loop
NoCheck == [id |-> 0, i |-> 0]

----------------------------------------------------------------------------
(* Capability store *)

\* the empty capx a failed lookup returns (protobuf defaults)
NoCap ==
  [id |-> 0, authid |-> "", clientid |-> "", clientuuid |-> "", mode |-> 0, vtime |-> 0]

\* the five containers of Caps as one value, so that calls compose
CurStore ==
  [caps |-> mCaps, client |-> mClientCaps, clientino |-> mClientInoCaps,
   inode |-> mInodeCaps, time |-> mTimeOrderedCap]

SetStore(S) ==
  /\ mCaps' = S.caps
  /\ mClientCaps' = S.client
  /\ mClientInoCaps' = S.clientino
  /\ mInodeCaps' = S.inode
  /\ mTimeOrderedCap' = S.time

\* bitwise and of two naturals
RECURSIVE BitAnd(_, _)
BitAnd(a, b) ==
  IF a = 0 \/ b = 0 THEN 0
  ELSE (a % 2) * (b % 2) + 2 * BitAnd(a \div 2, b \div 2)

\* std::multimap::insert: behind every entry whose key is not larger
TimeInsert(seq, t, a) ==
  LET n == Cardinality({i \in 1 .. Len(seq) : seq[i].t <= t})
  IN SubSeq(seq, 1, n) \o <<[t |-> t, a |-> a]>> \o SubSeq(seq, n + 1, Len(seq))

\* the multimap without the entries of one auth-id
RECURSIVE TimeDrop(_, _)
TimeDrop(seq, a) ==
  IF seq = <<>> THEN <<>>
  ELSE IF Head(seq).a = a THEN TimeDrop(Tail(seq), a)
  ELSE <<Head(seq)>> \o TimeDrop(Tail(seq), a)

\* Caps::Get
Get(S, a) == IF a \in DOMAIN S.caps THEN S.caps[a] ELSE NoCap

\* Caps::HasCap
HasCap(S, a) == a \in DOMAIN S.caps

\* the condition under which Caps::Store adds a time entry
StoreAddsTimeEntry(S, ecap) == ecap.authid \notin DOMAIN S.caps

\* Caps::Store
Store(S, ecap) ==
  [caps |-> MapPut(S.caps, ecap.authid, ecap),
   client |-> MapPut(S.client, ecap.clientid, SetAt(S.client, ecap.clientid) \cup {ecap.authid}),
   clientino |-> MapPut(S.clientino, ecap.clientid, SetAt(S.clientino, ecap.clientid) \cup {ecap.id}),
   inode |-> MapPut(S.inode, ecap.id, SetAt(S.inode, ecap.id) \cup {ecap.authid}),
   time |-> IF StoreAddsTimeEntry(S, ecap)
            THEN TimeInsert(S.time, ecap.vtime, ecap.authid)
            ELSE S.time]

\* the expiry stamp of a cap issued now to a mount
LeaseEnd(uuid) ==
  LET lt == leasetime(uuid) IN now + (IF lt # 0 THEN lt ELSE DefaultLeaseTime)

\* Caps::Imply: [ok, store]
Imply(S, md_ino, authid, implied_authid) ==
  LET cap == Get(S, authid)
      implied == [cap EXCEPT !.authid = implied_authid, !.id = md_ino,
                             !.vtime = LeaseEnd(cap.clientuuid)]
  IN IF cap.id = 0 \/ implied_authid = ""
     THEN [ok |-> FALSE, store |-> S]
     ELSE [ok |-> TRUE,
           store |->
             [caps |-> MapPut(S.caps, implied_authid, implied),
              client |-> MapPut(S.client, cap.clientid,
                                SetAt(S.client, cap.clientid) \cup {implied_authid}),
              clientino |-> MapPut(S.clientino, cap.clientid,
                                   SetAt(S.clientino, cap.clientid) \cup {md_ino}),
              inode |-> MapPut(S.inode, md_ino, SetAt(S.inode, md_ino) \cup {implied_authid}),
              time |-> TimeInsert(S.time, implied.vtime, implied_authid)]]

\* the indices Caps::Delete leaves without the auth-ids of the inode
DeleteTime(S, auths) == S.time

\* Caps::Delete: [rc, store]
Delete(S, md_ino) ==
  IF md_ino \notin DOMAIN S.inode
  THEN [rc |-> "ENOENT", store |-> S]
  ELSE LET auths == S.inode[md_ino]
           held == auths \cap DOMAIN S.caps
       IN [rc |-> "0",
           store |->
             [caps |-> MapEraseAll(S.caps, auths),
              client |-> [c \in DOMAIN S.client |-> S.client[c] \ auths],
              clientino |-> [c \in DOMAIN S.clientino |->
                               IF \E a \in held : S.caps[a].clientid = c
                               THEN S.clientino[c] \ {md_ino}
                               ELSE S.clientino[c]],
              inode |-> MapErase(S.inode, md_ino),
              time |-> DeleteTime(S, auths)]]

\* the by-inode, by-client and by-client-inode indices without one cap
Unindex(S, cap) ==
  [caps |-> MapErase(S.caps, cap.authid),
   client |-> IF cap.clientid \in DOMAIN S.client
              THEN (IF S.client[cap.clientid] \ {cap.authid} = {}
                    THEN MapErase(S.client, cap.clientid)
                    ELSE MapPut(S.client, cap.clientid, S.client[cap.clientid] \ {cap.authid}))
              ELSE S.client,
   clientino |-> IF cap.clientid \in DOMAIN S.clientino
                 THEN (IF S.clientino[cap.clientid] \ {cap.id} = {}
                       THEN MapErase(S.clientino, cap.clientid)
                       ELSE MapPut(S.clientino, cap.clientid, S.clientino[cap.clientid] \ {cap.id}))
                 ELSE S.clientino,
   inode |-> IF cap.id \in DOMAIN S.inode
             THEN (IF S.inode[cap.id] \ {cap.authid} = {}
                   THEN MapErase(S.inode, cap.id)
                   ELSE MapPut(S.inode, cap.id, S.inode[cap.id] \ {cap.authid}))
             ELSE S.inode,
   time |-> S.time]

\* Caps::Remove: the cap leaves every index
Remove(S, cap) ==
  IF cap.authid \notin DOMAIN S.caps THEN S
  ELSE [Unindex(S, S.caps[cap.authid]) EXCEPT !.time = TimeDrop(S.time, cap.authid)]

\* Caps::expire: the earliest entry of the expiry index is due
expire(S) == S.time # <<>> /\ Head(S.time).t <= now

\* Caps::pop: the earliest entry and its cap are removed
pop(S) ==
  LET a == Head(S.time).a
      U == IF a \in DOMAIN S.caps THEN Unindex(S, S.caps[a]) ELSE S
  IN [U EXCEPT !.time = Tail(S.time)]

\* the expiry sweep of MonitorCaps: pop while expire
RECURSIVE Sweep(_)
Sweep(S) == IF expire(S) THEN Sweep(pop(S)) ELSE S

\* Clients::ReleaseCAP: the message, if the uuid has a session
ReleaseCAP(md_ino, uuid, clientid) ==
  IF uuid \in DOMAIN mUUIDView
  THEN {[type |-> "LEASE", to |-> mUUIDView[uuid], uuid |-> uuid, ino |-> md_ino,
         clientid |-> clientid]}
  ELSE {}

\* the by-client set of a cap after Clients::Dropcaps dropped it
DropcapsClientSet(set, authid) == (set \ {authid}) \cup {authid}

\* Clients::Dropcaps: [rc, store, caps]
Dropcaps(S, uuid) ==
  IF uuid \notin DOMAIN mUUIDView
  THEN [rc |-> "ENOENT", store |-> S, caps |-> {}]
  ELSE LET drop == {a \in DOMAIN S.caps :
                      /\ S.caps[a].clientuuid = uuid
                      /\ \E i \in DOMAIN S.inode : a \in S.inode[i]}
           inoOf(i) == {a \in drop : S.caps[a].id = i}
           cids == {S.caps[a].clientid : a \in drop}
           ofClient(c) == {a \in drop : S.caps[a].clientid = c}
           inode1 == [i \in (DOMAIN S.inode) \cup {S.caps[a].id : a \in drop} |->
                        SetAt(S.inode, i) \ inoOf(i)]
           emptied == {i \in DOMAIN inode1 : inoOf(i) # {} /\ inode1[i] = {}}
           client1 == [c \in (DOMAIN S.client) \cup cids |->
                         IF c \in cids
                         THEN UNION {DropcapsClientSet(SetAt(S.client, c) \cup ofClient(c), a) :
                                       a \in ofClient(c)}
                         ELSE S.client[c]]
       IN [rc |-> "0",
           store |-> [caps |-> MapEraseAll(S.caps, drop),
                      client |-> client1,
                      clientino |-> S.clientino,
                      inode |-> MapEraseAll(inode1, emptied),
                      time |-> S.time],
           caps |-> {S.caps[a] : a \in drop}]

----------------------------------------------------------------------------
(* Heartbeats: ZMQ::Worker::work, Clients::Dispatch, Clients::HandleStatistics *)

\* a heartbeat older than the offline window is dropped
HeartbeatDropped(hb) == HeartbeatAge(hb.clock) > HeartBeatOfflineWindow

\* the session of an identity after its heartbeat was stored (the state is kept)
WithHeartbeat(identity, hb) ==
  [uuid |-> hb.uuid, clock |-> hb.clock, protversion |-> hb.protversion,
   leasetime |-> hb.leasetime, shutdown |-> hb.shutdown,
   state |-> IF identity \in DOMAIN mMap THEN mMap[identity].state ELSE DefaultClient.state]

\* Dispatch, registry part: the two maps after the heartbeat
DispatchMap(identity, hb) == MapPut(mMap, identity, WithHeartbeat(identity, hb))

DispatchUUIDView(identity, hb) == MapPut(mUUIDView, hb.uuid, identity)

\* Dispatch, lifetime extensions: cap->set_vtime(cap->vtime() + delta) on the shared cap
ExtendCaps(S, ext) ==
  [S EXCEPT !.caps = [a \in DOMAIN S.caps |->
     IF a \in DOMAIN ext /\ S.caps[a].vtime # 0
     THEN [S.caps[a] EXCEPT !.vtime = @ + ext[a]]
     ELSE S.caps[a]]]

\* Dispatch, revocations: Remove for every cap found, one after the other
RECURSIVE RevokeCaps(_, _)
RevokeCaps(S, auths) ==
  IF auths = {} THEN S
  ELSE LET a == CHOOSE x \in auths : TRUE
       IN RevokeCaps(Remove(S, Get(S, a)), auths \ {a})

\* Dispatch, cap part: revocations are applied only when the identity is known
DispatchCaps(S, rc, hb) ==
  LET E == ExtendCaps(S, hb.authextension)
  IN IF rc THEN E ELSE RevokeCaps(E, hb.authrevocation)

\* the DROPCAPS and CONFIG replies to a first heartbeat
FirstSeenMsgs(identity) ==
  {[type |-> "DROPCAPS", to |-> identity], [type |-> "CONFIG", to |-> identity]}

\* HandleStatistics: operator[] creates the session of an unknown identity
HandleStatistics(m, identity) ==
  IF identity \in DOMAIN m THEN m ELSE MapPut(m, identity, DefaultClient)

\* the HEARTBEAT case of the worker: Dispatch, then HandleStatistics if the
\* message carries statistics
Heartbeat(identity, hb, stats) ==
  LET rc == identity \notin DOMAIN mMap
      dropped == HeartbeatDropped(hb)
      m1 == IF dropped THEN mMap ELSE DispatchMap(identity, hb)
  IN /\ mMap' = (IF stats THEN HandleStatistics(m1, identity) ELSE m1)
     /\ mUUIDView' = (IF dropped THEN mUUIDView ELSE DispatchUUIDView(identity, hb))
     /\ SetStore(IF dropped THEN CurStore ELSE DispatchCaps(CurStore, rc, hb))
     /\ last' = [op |-> "Heartbeat", uuid |-> hb.uuid, rc |-> rc, dropped |-> dropped,
                 ext |-> hb.authextension, rev |-> hb.authrevocation,
                 msgs |-> IF ~dropped /\ rc THEN FirstSeenMsgs(identity) ELSE {}]
     /\ UNCHANGED <<now, lockmap, flushmap>>

----------------------------------------------------------------------------
(* Clients::MonitorHeartBeat *)

\* the session is put on the eviction map inside the sweep
InEvictMap(s) == s.shutdown \/ HeartbeatAge(s.clock) > HeartBeatRemoveWindow

\* the sweep reaches set_state(OFFLINE)
InOfflineBranch(s) ==
  /\ ~s.shutdown
  /\ HeartbeatAge(s.clock) > HeartBeatOfflineWindow
  /\ HeartbeatAge(s.clock) <= HeartBeatRemoveWindow

\* dropLocks without the test of the state before it
DropsLocksOnEverySweep(s) == InOfflineBranch(s)

\* the sweep calls dropLocks for the session
CallsDropLocks(s) == InOfflineBranch(s) /\ s.state # "OFFLINE"

\* protocol version mismatch
VersionMismatch(s) == s.protversion < PROTOCOLV2

\* the state the sweep leaves in the session
SweptState(s) ==
  IF VersionMismatch(s) THEN "EVICTED"
  ELSE IF s.shutdown THEN "EVICTED"
  ELSE IF HeartbeatAge(s.clock) > HeartBeatWindow
       THEN (IF HeartbeatAge(s.clock) > HeartBeatOfflineWindow
             THEN (IF HeartbeatAge(s.clock) > HeartBeatRemoveWindow
                   THEN "EVICTED" ELSE "OFFLINE")
             ELSE "VOLATILE")
       ELSE "ONLINE"

\* a client_uuid_t filled by map[uuid] = identity in iteration order of mMap:
\* the last identity of a uuid stays
UuidMap(ids) ==
  [u \in {mMap[id].uuid : id \in ids} |->
     CHOOSE id \in ids :
       /\ mMap[id].uuid = u
       /\ \A o \in ids : mMap[o].uuid = u => Rank(o) <= Rank(id)]

evictmap == UuidMap({id \in DOMAIN mMap : InEvictMap(mMap[id])})

evictversionmap == UuidMap({id \in DOMAIN mMap : VersionMismatch(mMap[id])})

Range(f) == {f[x] : x \in DOMAIN f}

\* the EVICT messages of the version loop: Clients::Evict finds the uuid or not
EvictMsgs(view) ==
  {[type |-> "EVICT", to |-> view[u], uuid |-> u,
    reason |-> "Server supports PROTOCOLV3 and requires atleast PROTOCOLV2"] :
     u \in (DOMAIN evictversionmap) \cap (DOMAIN view)}

\* the locks after the dropLocks calls of the sweep
SweepLocks == dropLocksAll(lockmap, {mMap[id].uuid : id \in {i \in DOMAIN mMap : CallsDropLocks(mMap[i])}})

MonitorHeartBeat ==
  LET swept == [id \in DOMAIN mMap |-> [mMap[id] EXCEPT !.state = SweptState(mMap[id])]]
      map1 == MapEraseAll(swept, Range(evictmap))
      view1 == MapEraseAll(mUUIDView, DOMAIN evictmap)
  IN /\ mMap' = MapEraseAll(map1, Range(evictversionmap))
     /\ mUUIDView' = MapEraseAll(view1, DOMAIN evictversionmap)
     /\ lockmap' = SweepLocks
     /\ flushmap' = expireFlush(flushmap)
     /\ last' = [op |-> "MonitorHeartBeat",
                 pre |-> [id \in DOMAIN mMap |-> mMap[id].state],
                 evicted |-> {[id |-> id, uuid |-> mMap[id].uuid] :
                                id \in {i \in DOMAIN mMap :
                                          InEvictMap(mMap[i]) \/ VersionMismatch(mMap[i])}},
                 offline |-> {id \in DOMAIN mMap : InOfflineBranch(mMap[id])},
                 drops |-> [id \in DOMAIN mMap |-> IF CallsDropLocks(mMap[id]) THEN 1 ELSE 0],
                 msgs |-> EvictMsgs(view1)]
     /\ UNCHANGED <<now, mCaps, mClientCaps, mClientInoCaps, mInodeCaps, mTimeOrderedCap>>

----------------------------------------------------------------------------
(* HandleMD: SETLK and SETLKW *)

\* the wire length as it is, without the infinite lock for 0
WireLenRaw(len) == len

\* len = 0 on the wire is the infinite lock
WireLen(len) == IF len = 0 THEN -1 ELSE len

SetLk(ino, pid, owner, type, start, len) ==
  LET lm == getLocks(lockmap, ino)
      busy == Conflicts(lm[ino], type, start, WireLen(len), pid, owner)
  IN /\ lockmap' = (IF busy THEN lm
                    ELSE [lm EXCEPT ![ino] = Installed(@, type, start, WireLen(len), pid, owner)])
     /\ last' = [op |-> "SetLk", err_no |-> IF busy THEN "EAGAIN" ELSE "0"]
     /\ UNCHANGED <<now, mMap, mUUIDView, flushmap, mCaps, mClientCaps, mClientInoCaps,
                    mInodeCaps, mTimeOrderedCap>>

\* no SETLKW request is waiting
NoWait == [type |-> "none"]

\* tries of a blocking LockTracker::setlk before it gives up
SetlkwTries == 8

\* the first try of SETLKW (sleep = 1): the lock is installed, or the request
\* sleeps inside LockTracker::setlk with the tracker getLocks gave it (detached
\* tells that purgeLocks has erased that tracker from the table since)
SetLkw(ino, pid, owner, type, start, len) ==
  LET lm == getLocks(lockmap, ino)
      busy == Conflicts(lm[ino], type, start, WireLen(len), pid, owner)
  IN /\ waiting = NoWait
     /\ lockmap' = (IF busy THEN lm
                    ELSE [lm EXCEPT ![ino] = Installed(@, type, start, WireLen(len), pid, owner)])
     /\ waiting' = (IF busy
                    THEN [type |-> type, ino |-> ino, pid |-> pid, owner |-> owner,
                          start |-> start, len |-> len, tries |-> 1, detached |-> FALSE]
                    ELSE NoWait)
     /\ last' = [op |-> "SetLkw", answered |-> ~busy, err_no |-> "0", tries |-> 1,
                 tracker |-> lockmap'[ino]]
     /\ UNCHANGED <<now, mMap, mUUIDView, flushmap, mCaps, mClientCaps, mClientInoCaps,
                    mInodeCaps, mTimeOrderedCap>>

\* the next try of the waiting request after its sleep; the last try answers EAGAIN
SetLkwRetry ==
  LET w == waiting
      t == IF w.detached THEN EmptyTracker ELSE lockmap[w.ino]
      busy == Conflicts(t, w.type, w.start, WireLen(w.len), w.pid, w.owner)
      over == busy /\ w.tries + 1 >= SetlkwTries
      t1 == IF busy THEN t ELSE Installed(t, w.type, w.start, WireLen(w.len), w.pid, w.owner)
  IN /\ waiting # NoWait
     /\ lockmap' = (IF w.detached THEN lockmap ELSE [lockmap EXCEPT ![w.ino] = t1])
     /\ waiting' = (IF busy /\ ~over THEN [w EXCEPT !.tries = @ + 1] ELSE NoWait)
     /\ last' = [op |-> "SetLkw", answered |-> ~busy \/ over,
                 err_no |-> IF over THEN "EAGAIN" ELSE "0", tries |-> w.tries + 1,
                 tracker |-> t1]
     /\ UNCHANGED <<now, mMap, mUUIDView, flushmap, mCaps, mClientCaps, mClientInoCaps,
                    mInodeCaps, mTimeOrderedCap>>

\* a call of Lock::dropLocks(owner); its purge takes the tracker of a waiting
\* request out of the table when no lock is left in it
DropLocks(owner) ==
  /\ lockmap' = dropLocks(lockmap, owner)
  /\ waiting' = (IF waiting # NoWait /\ waiting.ino \notin DOMAIN lockmap'
                 THEN [waiting EXCEPT !.detached = TRUE] ELSE waiting)
  /\ last' = [op |-> "dropLocks", owner |-> owner]
  /\ UNCHANGED <<now, mMap, mUUIDView, flushmap, mCaps, mClientCaps, mClientInoCaps,
                 mInodeCaps, mTimeOrderedCap>>

----------------------------------------------------------------------------
(* The clock *)

AdvanceTime(d) ==
  /\ now' = now + d
  /\ last' = [op |-> "AdvanceTime"]
  /\ UNCHANGED <<mMap, mUUIDView, lockmap, flushmap, mCaps, mClientCaps, mClientInoCaps,
                 mInodeCaps, mTimeOrderedCap>>

----------------------------------------------------------------------------
(* FuseServer::ValidateCAP and the broadcasts of Caps *)

\* std::set<authid_t> iterates its elements in this order
AuthIdOrder == <<"a1", "a2", "a3">>

AuthRank(a) == CHOOSE i \in 1 .. Len(AuthIdOrder) : AuthIdOrder[i] = a

\* ValidateCAP without the margin for revoking
ValidateCAPNoMargin(S, md, mode) ==
  LET cap == Get(S, md.authid)
  IN IF cap.id = 0 THEN [cap |-> NoCap, errno |-> "ENOENT"]
     ELSE IF cap.id # md.md_ino /\ cap.id # md.md_pino THEN [cap |-> NoCap, errno |-> "EINVAL"]
     ELSE IF BitAnd(cap.mode, mode) = mode
          THEN (IF cap.vtime <= now
                THEN [cap |-> NoCap, errno |-> "ETIMEDOUT"]
                ELSE [cap |-> cap, errno |-> "0"])
          ELSE [cap |-> NoCap, errno |-> "EPERM"]

\* FuseServer::ValidateCAP: the cap it returns (NoCap for a null pointer) and errno
ValidateCAP(S, md, mode) ==
  LET cap == Get(S, md.authid)
  IN IF cap.id = 0 THEN [cap |-> NoCap, errno |-> "ENOENT"]
     ELSE IF cap.id # md.md_ino /\ cap.id # md.md_pino THEN [cap |-> NoCap, errno |-> "EINVAL"]
     ELSE IF BitAnd(cap.mode, mode) = mode
          THEN (IF cap.vtime <= now + RevocationMargin
                THEN [cap |-> NoCap, errno |-> "ETIMEDOUT"]
                ELSE [cap |-> cap, errno |-> "0"])
          ELSE [cap |-> NoCap, errno |-> "EPERM"]

\* the test in front of SET and DELETE: the cap, or ValidatePERM (perm) after a
\* cap that is gone, pinned elsewhere or timed out
Authorised(S, md, mode, perm) ==
  LET v == ValidateCAP(S, md, mode)
  IN v.errno = "0" \/ (v.errno \in {"ENOENT", "EINVAL", "ETIMEDOUT"} /\ perm)

\* Caps::BroadcastRelease: the auth-ids of bccaps
BroadcastRelease(S, md) ==
  LET refcap == Get(S, md.authid)
      md_pino == IF refcap.id # 0 THEN refcap.id ELSE md.md_pino
  IN {a \in SetAt(S.inode, md_pino) \cap DOMAIN S.caps :
        /\ a # md.authid
        /\ S.caps[a].clientuuid # refcap.clientuuid
        /\ S.caps[a].id # 0}

\* Caps::BroadcastDeletion: the auth-ids of bccaps
BroadcastDeletion(S, id, md) ==
  LET refcap == Get(S, md.authid)
  IN {a \in SetAt(S.inode, refcap.id) \cap DOMAIN S.caps :
        /\ a # refcap.authid
        /\ S.caps[a].clientuuid # refcap.clientuuid
        /\ S.caps[a].id # 0}

\* Caps::BroadcastMD: the auth-ids of bccaps, the first cap of every uuid
BroadcastMD(S, md, md_ino, md_pino) ==
  LET refcap == Get(S, md.authid)
      cand == {a \in SetAt(S.inode, md_pino) \cap DOMAIN S.caps :
                 /\ a # md.authid
                 /\ S.caps[a].clientuuid # refcap.clientuuid
                 /\ S.caps[a].id # 0}
  IN {a \in cand : \A b \in cand :
        S.caps[b].clientuuid = S.caps[a].clientuuid => AuthRank(a) <= AuthRank(b)}

\* Clients::DeleteEntry
DeleteEntry(md_ino, uuid, clientid) ==
  IF uuid \in DOMAIN mUUIDView
  THEN {[type |-> "DENTRY", to |-> mUUIDView[uuid], uuid |-> uuid, ino |-> md_ino,
         clientid |-> clientid]}
  ELSE {}

\* Clients::SendMD
SendMD(md_ino, uuid, clientid) ==
  IF uuid \in DOMAIN mUUIDView
  THEN {[type |-> "MD", to |-> mUUIDView[uuid], uuid |-> uuid, ino |-> md_ino,
         clientid |-> clientid]}
  ELSE {}

\* the messages of the send loop behind a broadcast
ReleaseMsgs(S, bccaps) ==
  UNION {ReleaseCAP(S.caps[a].id, S.caps[a].clientuuid, S.caps[a].clientid) : a \in bccaps}

DeletionMsgs(S, bccaps) ==
  UNION {DeleteEntry(S.caps[a].id, S.caps[a].clientuuid, S.caps[a].clientid) : a \in bccaps}

MDMsgs(S, bccaps, md_ino) ==
  UNION {SendMD(md_ino, S.caps[a].clientuuid, S.caps[a].clientid) : a \in bccaps}

----------------------------------------------------------------------------
(* FuseServer::FillContainerCAP and the requests of HandleMD *)

\* grant all permissions: 0xff | S_IFDIR
RootMode == 255 + S_IFDIR

\* the owner of a directory with mode r-x
OwnerReadMode == S_IFDIR + R_OK + M_OK + SU_OK + X_OK

\* FuseServer::FillContainerCAP: the store after the cap was stored
FillContainerCAP(S, id, md, mode, reuse_uuid, random_uuid, issue_only_one) ==
  IF /\ issue_only_one
     /\ md.clientid \in DOMAIN S.clientino
     /\ id \in S.clientino[md.clientid]
  THEN S
  ELSE Store(S, [id |-> id,
                 authid |-> IF reuse_uuid # "" THEN reuse_uuid ELSE random_uuid,
                 clientid |-> md.clientid, clientuuid |-> md.clientuuid,
                 mode |-> mode, vtime |-> LeaseEnd(md.clientuuid)])

\* an auth-id no container of the store mentions: what a new random uuid is
Unused(S, a) ==
  /\ a \notin DOMAIN S.caps
  /\ \A c \in DOMAIN S.client : a \notin S.client[c]
  /\ \A i \in DOMAIN S.inode : a \notin S.inode[i]
  /\ \A k \in 1 .. Len(S.time) : S.time[k].a # a

\* GET of a directory (md.authid is reused) and GETCAP (md.authid is empty)
HandleGET(md, mode, random_uuid) ==
  LET S1 == FillContainerCAP(CurStore, md.md_ino, md, mode, md.authid, random_uuid, FALSE)
  IN /\ SetStore(S1)
     /\ last' = [op |-> "GET", md |-> md,
                 authid |-> IF md.authid # "" THEN md.authid ELSE random_uuid]
     /\ UNCHANGED <<now, mMap, mUUIDView, lockmap, flushmap>>

\* it->first.substr(0, 1) == ".": the names of the model that start with a dot
Hidden(name) == name \in {".h", ".sys.a#.x"}

\* the random uuid of the next cap: the first auth-id of the pool that is unused
FreshAuthId(S, pool) ==
  CHOOSE a \in pool : Unused(S, a) /\ \A b \in pool : Unused(S, b) => AuthRank(a) <= AuthRank(b)

\* the loop of LS over the children that are directories, kids in the order of
\* the iteration, each [name, id, mode]; n_caps counts the calls of
\* FillContainerCAP
RECURSIVE AttachChildren(_, _, _, _, _)
AttachChildren(S, md, pool, kids, n_caps) ==
  IF kids = <<>> THEN S
  ELSE LET it == Head(kids)
           issue == n_caps < ImplicitCapLimit /\ Hidden(it.name)
           child_md == [md EXCEPT !.md_ino = it.id]
           S1 == IF issue
                 THEN FillContainerCAP(S, it.id, child_md, it.mode, "", FreshAuthId(S, pool),
                                       TRUE)
                 ELSE S
       IN AttachChildren(S1, md, pool, Tail(kids), IF issue THEN n_caps + 1 ELSE n_caps)

\* LS of a directory: the cap of the directory as for GET, then the children
HandleLS(md, mode, random_uuid, pool, kids) ==
  LET S1 == FillContainerCAP(CurStore, md.md_ino, md, mode, md.authid, random_uuid, FALSE)
      S2 == AttachChildren(S1, md, pool, kids, 0)
  IN /\ SetStore(S2)
     /\ last' = [op |-> "LS", md |-> md, kids |-> kids,
                 authid |-> IF md.authid # "" THEN md.authid ELSE random_uuid]
     /\ UNCHANGED <<now, mMap, mUUIDView, lockmap, flushmap>>

\* SET of a directory (mkdir with an implied cap, or update) or of a file
\* (md.md_ino is 0 for a creation, whose inode is new_ino)
HandleSET(md, kind, new_ino, implied_authid, perm) ==
  LET S == CurStore
      v == ValidateCAP(S, md, W_OK + SA_OK)
      ok == Authorised(S, md, W_OK + SA_OK, perm)
      S1 == IF ok /\ kind = "mkdir" THEN Imply(S, new_ino, md.authid, implied_authid).store ELSE S
      release == IF ok /\ kind # "file" THEN BroadcastRelease(S1, md) ELSE {}
      md_ino == IF md.md_ino # 0 THEN md.md_ino ELSE new_ino
      mdsent == IF ok /\ kind = "file" THEN BroadcastMD(S1, md, md_ino, md.md_pino) ELSE {}
  IN /\ SetStore(S1)
     /\ last' = [op |-> "SET", kind |-> kind, md |-> md, mode |-> W_OK + SA_OK, perm |-> perm,
                 errno |-> v.errno, cap |-> v.cap.authid,
                 rc |-> IF ok THEN "0" ELSE "EPERM", md_ino |-> md_ino,
                 release |-> release, mdsent |-> mdsent,
                 msgs |-> ReleaseMsgs(S1, release) \cup MDMsgs(S1, mdsent, md_ino)]
     /\ UNCHANGED <<now, mMap, mUUIDView, lockmap, flushmap>>

\* DELETE of a directory, a file or a link
HandleDELETE(md, perm) ==
  LET S == CurStore
      v == ValidateCAP(S, md, D_OK)
      ok == Authorised(S, md, D_OK, perm)
      release == IF ok THEN BroadcastRelease(S, md) ELSE {}
      deletion == IF ok THEN BroadcastDeletion(S, md.md_pino, md) ELSE {}
      D == Delete(S, md.md_ino)
  IN /\ SetStore(IF ok THEN D.store ELSE S)
     /\ last' = [op |-> "DELETE", md |-> md, mode |-> D_OK, perm |-> perm,
                 errno |-> v.errno, cap |-> v.cap.authid,
                 rc |-> IF ok THEN "0" ELSE "EPERM",
                 release |-> release, deletion |-> deletion,
                 delrc |-> IF ok THEN D.rc ELSE "",
                 msgs |-> ReleaseMsgs(S, release) \cup DeletionMsgs(S, deletion)]
     /\ UNCHANGED <<now, mMap, mUUIDView, lockmap, flushmap>>

\* the expiry loop of MonitorCaps
MonitorCaps ==
  /\ SetStore(Sweep(CurStore))
  /\ last' = [op |-> "MonitorCaps"]
  /\ UNCHANGED <<now, mMap, mUUIDView, lockmap, flushmap>>

\* Caps::BroadcastCap with Clients::SendCAP: the message, if the cap has an inode
\* and its uuid a session
BroadcastCap(cap) ==
  IF cap.id # 0 /\ cap.clientuuid \in DOMAIN mUUIDView
  THEN {[type |-> "CAP", to |-> mUUIDView[cap.clientuuid], uuid |-> cap.clientuuid,
         authid |-> cap.authid]}
  ELSE {}

\* a cap update at every pass that finds the auth-id out of quota
QuotaOut(out, listed) == out

\* the condition of a cap update: first time out of quota, or first time back
QuotaStatusChanged(out, listed) == (out /\ ~listed) \/ (~out /\ listed)

\* the quota pass of MonitorCaps over the caps of store S. bySpace is the answer
\* of Quota::QuotaBySpace for the quota node of the caps of a mount: the files
\* and bytes that are left, with ok false when the call fails or the caps carry
\* no quota.  [sent, msgs, outofquota]
QuotaPass(S, bySpace) ==
  LET authids == {a \in DOMAIN S.caps : bySpace[S.caps[a].clientuuid].ok}
      avail(a) == bySpace[S.caps[a].clientuuid]
      out(a) == avail(a).files = 0 \/ avail(a).bytes = 0
      changed == {a \in authids : QuotaStatusChanged(out(a), a \in DOMAIN outofquota)}
      marked == {a \in changed : out(a)}
      kept == (DOMAIN outofquota \cup marked) \ (changed \ marked)
      stamp == [a \in kept |-> IF a \in marked THEN now ELSE outofquota[a]]
      young == {a \in kept : ~(stamp[a] + OutOfQuotaLifetime < now)}
  IN [sent |-> changed,
      msgs |-> UNION {BroadcastCap(S.caps[a]) : a \in changed},
      outofquota |-> [a \in young |-> stamp[a]]]

\* an iteration of MonitorCaps that checks the quota nodes: the expiry loop and
\* the quota pass
MonitorCapsQuota(bySpace) ==
  LET S == Sweep(CurStore)
      Q == QuotaPass(S, bySpace)
  IN /\ SetStore(S)
     /\ outofquota' = Q.outofquota
     /\ last' = [op |-> "MonitorCapsQuota", bySpace |-> bySpace, caps |-> DOMAIN S.caps,
                 sent |-> Q.sent, msgs |-> Q.msgs]
     /\ UNCHANGED <<now, mMap, mUUIDView, lockmap, flushmap>>

\* BEGINFLUSH and ENDFLUSH of HandleMD
HandleBEGINFLUSH(md) ==
  /\ flushmap' = beginFlush(flushmap, md.md_ino, md.clientuuid)
  /\ last' = [op |-> "BEGINFLUSH", id |-> md.md_ino, client |-> md.clientuuid]
  /\ UNCHANGED <<now, mMap, mUUIDView, lockmap, capVars>>

HandleENDFLUSH(md) ==
  /\ flushmap' = endFlush(flushmap, md.md_ino, md.clientuuid)
  /\ last' = [op |-> "ENDFLUSH", id |-> md.md_ino, client |-> md.clientuuid]
  /\ UNCHANGED <<now, mMap, mUUIDView, lockmap, capVars>>

\* Flush::hasFlush: check i + 1 of the inode, and the return or the sleep behind it
hasFlush(id, i) ==
  LET V == validateFlush(flushmap, id)
      returns == ~V.has \/ i + 1 = HasFlushChecks
  IN /\ flushmap' = V.flushmap
     /\ flushcheck' = IF returns THEN NoCheck ELSE [id |-> id, i |-> i + 1]
     /\ last' = IF returns
                THEN [op |-> "hasFlush", id |-> id, rc |-> V.has, checks |-> i + 1]
                ELSE [op |-> "hasFlush sleeps", id |-> id]
     /\ UNCHANGED <<now, mMap, mUUIDView, lockmap, capVars>>

\* the dropcaps command of the administrator
DropcapsCmd(uuid) ==
  LET D == Dropcaps(CurStore, uuid)
  IN /\ SetStore(D.store)
     /\ last' = [op |-> "Dropcaps", uuid |-> uuid, rc |-> D.rc,
                 msgs |-> UNION {ReleaseCAP(c.id, c.clientuuid, c.clientid) : c \in D.caps}]
     /\ UNCHANGED <<now, mMap, mUUIDView, lockmap, flushmap>>

----------------------------------------------------------------------------
(* The namespace view behind SET and DELETE                                *)
(*                                                                         *)
(* A container is [name, parent, uid, recycle, files, dirs], a file is     *)
(* [name, cont, attr]; files and dirs map a name to an id, attr maps the   *)
(* name of an extended attribute to its string.  Modification times and    *)
(* sizes are left out.  N = [c, f, s, cid, fid] is the view as one value:  *)
(* containers, files, the stored containers and the ids handed out last.   *)

k_mdino == "sys.eos.mdino"
k_nlink == "sys.eos.nlink"

\* the name of a directory or file that starts with the atomic upload prefix
AtomicName == ".sys.a#.x"

\* std::to_string and std::stoi / std::stol / std::stoll: a decimal string is the
\* sequence of its characters
DigitChar == <<"0", "1", "2", "3", "4", "5", "6", "7", "8", "9">>

RECURSIVE Decimal(_)
Decimal(n) ==
  IF n < 10 THEN <<DigitChar[n + 1]>>
  ELSE Decimal(n \div 10) \o <<DigitChar[(n % 10) + 1]>>

to_string(n) == IF n < 0 THEN <<"-">> \o Decimal(-n) ELSE Decimal(n)

RECURSIVE Value(_)
Value(s) ==
  IF s = <<>> THEN 0
  ELSE 10 * Value(SubSeq(s, 1, Len(s) - 1))
         + (CHOOSE d \in 0 .. 9 : DigitChar[d + 1] = s[Len(s)])

stoi(s) == IF s[1] = "-" THEN -Value(Tail(s)) ELSE Value(s)

\* FileId::FidToInode and FileId::InodeToFid: file inodes lie above the containers
FileInodeShift == 16

FidToInode(fid) == fid * FileInodeShift

InodeToFid(ino) == ino \div FileInodeShift

\* snprintf("...eos.ino...%lx", fid): the shelter name of a file id
ShelterName(fid) ==
  <<"...eos.ino...1", "...eos.ino...2", "...eos.ino...3", "...eos.ino...4",
    "...eos.ino...5", "...eos.ino...6", "...eos.ino...7", "...eos.ino...8">>[fid]

CurNs ==
  [c |-> eosDirectoryService, f |-> eosFileService, s |-> dirStore, cid |-> lastCid,
   fid |-> lastFid]

SetNs(N) ==
  /\ eosDirectoryService' = N.c
  /\ eosFileService' = N.f
  /\ dirStore' = N.s
  /\ lastCid' = N.cid
  /\ lastFid' = N.fid

\* IContainerMD::access for writing: root, or the owner of the container
access(N, cid, uid) == uid = 0 \/ N.c[cid].uid = uid

\* IContainerMD::removeFile, removeContainer: the name is gone from the container
removeFile(N, cid, name) == [N EXCEPT !.c[cid].files = MapErase(@, name)]

removeContainer(N, cid, name) == [N EXCEPT !.c[cid].dirs = MapErase(@, name)]

\* IContainerMD::addFile, addContainer: the entry and the parent of the child
addFile(N, cid, fid) ==
  [N EXCEPT !.c[cid].files = MapPut(@, N.f[fid].name, fid), !.f[fid].cont = cid]

addContainer(N, cid, child) ==
  [N EXCEPT !.c[cid].dirs = MapPut(@, N.c[child].name, child), !.c[child].parent = cid]

\* IView::renameFile, renameContainer: the entry of the parent follows the name
renameFile(N, fid, name) ==
  LET cid == N.f[fid].cont
      N1 == IF cid \in DOMAIN N.c THEN removeFile(N, cid, N.f[fid].name) ELSE N
      N2 == [N1 EXCEPT !.f[fid].name = name]
  IN IF cid \in DOMAIN N.c THEN [N2 EXCEPT !.c[cid].files = MapPut(@, name, fid)] ELSE N2

renameContainer(N, id, name) ==
  LET p == N.c[id].parent
      N1 == removeContainer(N, p, N.c[id].name)
  IN [N1 EXCEPT !.c[id].name = name, !.c[p].dirs = MapPut(@, name, id)]

\* IFileMDSvc::createFile, IContainerMDSvc::createContainer: a new id, no name
createFile(N) ==
  [N EXCEPT !.fid = @ + 1,
            !.f = MapPut(@, N.fid + 1, [name |-> "", cont |-> 0, attr |-> EmptyMap])]

createContainer(N) ==
  [N EXCEPT !.cid = @ + 1,
            !.c = MapPut(@, N.cid + 1, [name |-> "", parent |-> 0, uid |-> 0,
                                        recycle |-> FALSE, files |-> EmptyMap,
                                        dirs |-> EmptyMap])]

\* IFileMDSvc::removeFile, IContainerMDSvc::removeContainer: the object is gone
dropFile(N, fid) == [N EXCEPT !.f = MapErase(@, fid)]

dropContainer(N, id) == [N EXCEPT !.c = MapErase(@, id), !.s = MapErase(@, id)]

\* setContainerId(0) and unlinkAllLocations: the file is detached, its object
\* stays until the replicas are gone
unlinkFile(N, fid) == [N EXCEPT !.f[fid].cont = 0]

\* IView::updateContainerStore, IContainerMDSvc::updateStore of a container
updateStore(N, cid) ==
  IF cid \in DOMAIN N.c THEN [N EXCEPT !.s = MapPut(@, cid, N.c[cid])] ELSE N

----------------------------------------------------------------------------
(* FuseServer::HandleMD: SET and DELETE on the namespace view *)

NoAck == [code |-> "none"]

\* the acknowledgement of a request
AckOK(md, md_ino) ==
  [code |-> "OK", transactionid |-> md.reqid, md_ino |-> md_ino]

AckFailure(md, err_no, err_msg) ==
  [code |-> "PERMANENT_FAILURE", err_no |-> err_no, err_msg |-> err_msg,
   transactionid |-> md.reqid]

\* what a request leaves: the view, the cap store, the return code, the response,
\* the caps the broadcasts went to, the inode that was set, and the calls that
\* are left to do after the writer lock was released
Outcome(N, S, rc, ack, release, mdsent, deletion, md_ino, tail) ==
  [N |-> N, S |-> S, rc |-> rc, ack |-> ack, release |-> release, mdsent |-> mdsent,
   deletion |-> deletion, md_ino |-> md_ino, tail |-> tail]

\* return <errno>: nothing is serialised into the response
Return(N, S, rc) == Outcome(N, S, rc, NoAck, {}, {}, {}, 0, "")

\* catch (eos::MDException& e): the failure is acknowledged, return 0
Caught(N, S, md, err_no, err_msg) ==
  Outcome(N, S, "0", AckFailure(md, err_no, err_msg), {}, {}, {}, 0, "")

\* FuseServer::ValidatePERM for "W" and "D": the container exists and is writable
ValidatePERM(N, md_pino, uid) == md_pino \in DOMAIN N.c /\ access(N, md_pino, uid)

\* the test in front of SET and DELETE
NsAuthorised(N, S, md, mode) ==
  LET v == ValidateCAP(S, md, mode)
  IN \/ v.errno = "0"
     \/ v.errno \in {"ENOENT", "EINVAL", "ETIMEDOUT"} /\ ValidatePERM(N, md.md_pino, md.uid)

\* SET of a directory: after the writer lock was taken
SetDir(N, S, md) ==
  IF md.md_ino # 0 /\ md.excl THEN Return(N, S, "EEXIST")
  ELSE IF md.md_ino # 0 /\ md.implied_authid # "" THEN Return(N, S, "EEXIST")
  ELSE IF md.md_ino # 0 /\ md.md_ino \notin DOMAIN N.c
       THEN Caught(N, S, md, "ENOENT", "no such container")
  ELSE IF md.md_pino \notin DOMAIN N.c THEN Caught(N, S, md, "ENOENT", "no such container")
  ELSE IF md.md_ino # 0
  THEN
    LET cmd == md.md_ino
        src == N.c[cmd].parent
        move == src # md.md_pino
        \* the source is taken out of its parent before the target is looked at
        N1 == [updateStore(removeContainer(N, src, N.c[cmd].name), src)
                 EXCEPT !.c[cmd].name = md.name]
        hasTarget == md.name \in DOMAIN N1.c[md.md_pino].dirs
        tgt == N1.c[md.md_pino].dirs[md.name]
        N2 == IF hasTarget THEN removeContainer(dropContainer(N1, tgt), md.md_pino, md.name)
              ELSE N1
        N3 == updateStore(addContainer(N2, md.md_pino, cmd), md.md_pino)
        N4 == IF move THEN N3
              ELSE IF N.c[cmd].name # md.name THEN renameContainer(N, cmd, md.name)
              ELSE N
        N5 == [N4 EXCEPT !.c[cmd].uid = md.uid]
        N6 == IF move \/ N.c[cmd].name # md.name THEN updateStore(N5, md.md_pino) ELSE N5
        N7 == updateStore(N6, cmd)
        mv_md == [md EXCEPT !.authid = md.mv_authid, !.md_pino = 0, !.md_ino = 0]
    IN IF move /\ ~ValidatePERM(N, src, md.uid) THEN Return(N, S, "EPERM")
       ELSE IF move /\ hasTarget /\ tgt \in DOMAIN N1.c
                 /\ DOMAIN N1.c[tgt].files \cup DOMAIN N1.c[tgt].dirs # {}
            THEN Return(N1, S, "ENOTEMPTY")
       ELSE Outcome(N7, S, "0", AckOK(md, cmd),
                    (IF move THEN BroadcastRelease(S, mv_md) ELSE {})
                      \cup BroadcastRelease(S, md),
                    {}, {}, cmd, "")
  ELSE
    LET N1 == createContainer(N)
        cmd == N1.cid
        N2 == addContainer([N1 EXCEPT !.c[cmd].name = md.name], md.md_pino, cmd)
        I == Imply(S, cmd, md.authid, md.implied_authid)
        N3 == [N2 EXCEPT !.c[cmd].recycle = N.c[md.md_pino].recycle, !.c[cmd].uid = md.uid]
        N4 == updateStore(updateStore(N3, md.md_pino), cmd)
    IN IF md.name = AtomicName THEN Return(N, S, "EPERM")
       ELSE IF md.excl /\ md.name \in DOMAIN N.c[md.md_pino].dirs THEN Return(N, S, "EEXIST")
       ELSE Outcome(N4, I.store, "0", AckOK(md, cmd), BroadcastRelease(I.store, md),
                    {}, {}, cmd, "")

\* FuseServer::FillFileMD: the record GET returns for the inode of a file or of
\* a link entry, err = "0" when the file and the target of the link are found
FillFileMD(N, inode) ==
  LET gid == InodeToFid(inode)
      gmd == N.f[gid]
      has_mdino == k_mdino \in DOMAIN gmd.attr
      fid == IF has_mdino THEN InodeToFid(stoi(gmd.attr[k_mdino])) ELSE gid
      fmd == N.f[fid]
      shown == IF has_mdino THEN MapErase(fmd.attr, k_nlink) ELSE fmd.attr
  IN IF gid \notin DOMAIN N.f \/ fid \notin DOMAIN N.f
     THEN [err |-> "ENOENT", attr |-> EmptyMap]
     ELSE [err |-> "0", name |-> gmd.name, md_ino |-> FidToInode(gid),
           md_pino |-> fmd.cont,
           nlink |-> IF k_nlink \in DOMAIN fmd.attr THEN stoi(fmd.attr[k_nlink]) + 1 ELSE 1,
           attr |-> IF has_mdino THEN MapPut(shown, k_mdino, gmd.attr[k_mdino]) ELSE shown]

\* the attributes SET leaves on a file: those of the request and the birth time
SetAttributes(md) == MapPut(md.attr, "sys.eos.btime", <<"0", ".", "0">>)

\* SET of a regular file: after the writer lock was taken.  avail_files is the
\* answer of the quota oracle
SetFile(N, S, md, avail_files) ==
  LET fid == InodeToFid(md.md_ino)
      pcmd == md.md_pino
  IN
  IF pcmd \notin DOMAIN N.c THEN Caught(N, S, md, "ENOENT", "no such container")
  ELSE IF md.md_ino # 0 /\ md.excl THEN Return(N, S, "EEXIST")
  ELSE IF md.md_ino # 0
  THEN
    IF fid \notin DOMAIN N.f THEN Caught(N, S, md, "ENOENT", "no such file")
    ELSE
    LET fmd == N.f[fid]
        move == fmd.cont # pcmd
        rename == ~move /\ fmd.name # md.name
        \* MOVE: out of the source, over a file of that name in the target
        M1 == [updateStore(removeFile(N, fmd.cont, fmd.name), fmd.cont)
                 EXCEPT !.f[fid].name = md.name]
        M2 == IF md.name \in DOMAIN M1.c[pcmd].files
              THEN dropFile(removeFile(M1, pcmd, md.name), M1.c[pcmd].files[md.name])
              ELSE M1
        M3 == updateStore(addFile(M2, pcmd, fid), pcmd)
        \* RENAME: over a file of that name
        R1 == IF md.name \in DOMAIN N.c[pcmd].files
              THEN dropFile(removeFile(N, pcmd, md.name), N.c[pcmd].files[md.name])
              ELSE N
        R2 == renameFile(R1, fid, md.name)
        N1 == IF move THEN M3 ELSE IF rename THEN R2 ELSE N
        N2 == [N1 EXCEPT !.f[fid].name = md.name, !.f[fid].attr = SetAttributes(md)]
        N3 == IF move \/ rename THEN updateStore(N2, pcmd) ELSE N2
    IN IF move /\ fmd.cont \notin DOMAIN N.c
       THEN Caught(N, S, md, "ENOENT", "no such container")
       ELSE IF fid \notin DOMAIN N3.f THEN Caught(N3, S, md, "ENOENT", "no such file")
       ELSE Outcome(N3, S, "0", AckOK(md, md.md_ino), {},
                    BroadcastMD(S, md, md.md_ino, md.md_pino), {}, md.md_ino, "")
  ELSE IF md.hlnk
  THEN
    LET tgt == InodeToFid(md.tgt)
        N1 == createFile(N)
        gmd == N1.fid
        nlink == IF k_nlink \in DOMAIN N.f[tgt].attr THEN stoi(N.f[tgt].attr[k_nlink]) + 1
                 ELSE 1
        N2 == [N1 EXCEPT !.f[tgt].attr = MapPut(@, k_nlink, to_string(nlink)),
                         !.f[gmd].attr = MapPut(@, k_mdino, to_string(md.tgt)),
                         !.f[gmd].name = md.name]
        N3 == updateStore(addFile(N2, pcmd, gmd), pcmd)
    IN IF md.name \in DOMAIN N.c[pcmd].dirs THEN Return(N, S, "EEXIST")
       ELSE IF tgt \notin DOMAIN N.f THEN Caught(N, S, md, "ENOENT", "no such file")
       ELSE Outcome(N3, S, "0", AckOK(md, FidToInode(gmd)), {}, {}, {}, FidToInode(gmd),
                    "updateStore")
  ELSE
    LET N1 == createFile(N)
        fmd == N1.fid
        N2 == addFile([N1 EXCEPT !.f[fmd].name = md.name], pcmd, fmd)
        N3 == updateStore([N2 EXCEPT !.f[fmd].attr = SetAttributes(md)], pcmd)
    IN IF md.name = AtomicName THEN Return(N, S, "EPERM")
       ELSE IF avail_files = 0 THEN Return(N, S, "EDQUOT")
       ELSE Outcome(N3, S, "0", AckOK(md, FidToInode(fmd)), {},
                    BroadcastMD(S, md, FidToInode(fmd), md.md_pino), {}, FidToInode(fmd), "")

\* SET of a symbolic link: after the writer lock was taken.  The file of that
\* name in the parent is looked up, md.md_ino is not; the text of the link is
\* left out
SetLink(N, S, md) ==
  LET pcmd == md.md_pino
      found == /\ md.name \in DOMAIN N.c[pcmd].files
               /\ N.c[pcmd].files[md.name] \in DOMAIN N.f
      N1 == IF found THEN N ELSE createFile(N)
      fmd == IF found THEN N.c[pcmd].files[md.name] ELSE N1.fid
      N2 == [N1 EXCEPT !.f[fmd].name = md.name]
      N3 == IF found THEN N2 ELSE addFile(N2, pcmd, fmd)
      N4 == [N3 EXCEPT !.f[fmd].attr = IF found THEN EmptyMap
                                       ELSE MapPut(EmptyMap, "sys.eos.btime", <<"0", ".", "0">>)]
      N5 == updateStore(N4, pcmd)
  IN IF pcmd \notin DOMAIN N.c THEN Caught(N, S, md, "ENOENT", "no such container")
     ELSE IF found /\ md.excl THEN Return(N, S, "EEXIST")
     ELSE IF ~found /\ md.name = AtomicName THEN Return(N, S, "EPERM")
     ELSE Outcome(N5, S, "0", AckOK(md, FidToInode(fmd)), {},
                  BroadcastMD(S, md, FidToInode(fmd), md.md_pino), {}, FidToInode(fmd), "")

\* DELETE of a directory or a regular file: after the writer lock was taken
Delete_(N, S, md) ==
  LET pcmd == md.md_pino
      fid == InodeToFid(md.md_ino)
      bc(N1) == Outcome(N1, Delete(S, md.md_ino).store, "0", AckOK(md, 0),
                        BroadcastRelease(S, md), {}, BroadcastDeletion(S, pcmd, md),
                        md.md_ino, "")
  IN
  IF pcmd \notin DOMAIN N.c THEN Caught(N, S, md, "ENOENT", "no such container")
  ELSE IF md.isdir
  THEN
    IF md.md_ino \notin DOMAIN N.c THEN Caught(N, S, md, "ENOENT", "no such container")
    ELSE IF DOMAIN N.c[md.md_ino].dirs \cup DOMAIN N.c[md.md_ino].files # {}
    THEN Outcome(N, S, "0", AckFailure(md, "ENOTEMPTY", "directory not empty"),
                 {}, {}, {}, 0, "")
    ELSE bc(updateStore(dropContainer(removeContainer(N, pcmd, N.c[md.md_ino].name),
                                      md.md_ino), pcmd))
  ELSE
    IF fid \notin DOMAIN N.f THEN Caught(N, S, md, "ENOENT", "no such file")
    ELSE
    LET fmd == N.f[fid]
        isLink == k_mdino \in DOMAIN fmd.attr
        \* a link entry: the counter of the target, or the target itself
        gmd == InodeToFid(stoi(fmd.attr[k_mdino]))
        gnlink == stoi(N.f[gmd].attr[k_nlink]) - 1
        L1 == IF gnlink >= 0
              THEN [N EXCEPT !.f[gmd].attr = MapPut(@, k_nlink, to_string(gnlink))]
              ELSE unlinkFile(removeFile(N, pcmd, N.f[gmd].name), gmd)
        \* a file with a counter: sheltered while links are left
        nlink == stoi(fmd.attr[k_nlink]) - 1
        F1 == renameFile(removeFile([N EXCEPT !.f[fid].attr =
                                         MapPut(@, k_nlink, to_string(nlink))],
                                    pcmd, ShelterName(fid)),
                         fid, ShelterName(fid))
        doDelete == ~(~isLink /\ k_nlink \in DOMAIN fmd.attr /\ nlink >= 0)
        N1 == IF isLink THEN L1
              ELSE IF k_nlink \in DOMAIN fmd.attr /\ nlink >= 0 THEN F1
              ELSE N
        N2 == IF doDelete THEN unlinkFile(removeFile(N1, pcmd, N1.f[fid].name), fid) ELSE N1
    IN IF N.c[pcmd].recycle /\ ~isLink /\ k_nlink \notin DOMAIN fmd.attr
       THEN \* the recycle bin: OFS::_rem deletes the file between UnLockWrite and LockWrite
            bc(IF fmd.cont \in DOMAIN N.c
               THEN unlinkFile(removeFile(N, fmd.cont, fmd.name), fid) ELSE N)
       ELSE IF isLink /\ gmd \notin DOMAIN N.f
            THEN Caught(N, S, md, "ENOENT", "no such file")
       ELSE IF isLink /\ k_nlink \notin DOMAIN N.f[gmd].attr
            THEN Caught(N, S, md, "ENOENT", "no such attribute")
       ELSE bc(updateStore(N2, pcmd))

\* what a request does from its acknowledgement on, in the order of the code:
\* lock.Release() stands in front of the OK acknowledgements only, the failures
\* are serialised in the scope of the writer lock, and return <errno> leaves
\* without a response
Steps(R) ==
  IF R.ack.code = "none" THEN <<>>
  ELSE IF R.ack.code = "PERMANENT_FAILURE" THEN <<"SerializeToString">>
  ELSE <<"lock.Release", "SerializeToString">>
         \o (IF R.tail = "" THEN <<"Broadcast">> ELSE <<>>)

NoPending == [tail |-> ""]

\* the requests of HandleMD as steps: SET and DELETE run from the test of the cap
\* to the release of the writer lock and the broadcasts; the calls a hardlink
\* creation makes after lock.Release() are a step of their own
Answer(op, md, R) ==
  /\ SetNs(R.N)
  /\ SetStore(R.S)
  /\ pending' = (IF R.tail # "" THEN [tail |-> R.tail, md |-> md] ELSE pending)
  /\ history' = [made |-> IF R.tail # ""
                          THEN MapPut(history.made, md.tgt,
                                      (IF md.tgt \in DOMAIN history.made
                                       THEN history.made[md.tgt] ELSE 0) + 1)
                          ELSE history.made,
                 deleted |-> history.deleted
                               \/ (op = "DELETE" /\ R.rc = "0" /\ R.ack.code = "OK")]
  /\ last' = [op |-> op, md |-> md, rc |-> R.rc, ack |-> R.ack, release |-> R.release,
              mdsent |-> R.mdsent, deletion |-> R.deletion, md_ino |-> R.md_ino,
              mutated |-> R.N # CurNs, locked |-> TRUE, steps |-> Steps(R),
              msgs |-> ReleaseMsgs(R.S, R.release) \cup MDMsgs(R.S, R.mdsent, R.md_ino)
                         \cup DeletionMsgs(CurStore, R.deletion)]
  /\ UNCHANGED <<now, mMap, mUUIDView, lockmap, flushmap>>

NsSET(md, avail_files) ==
  LET N == CurNs
      S == CurStore
  IN Answer("SET", md,
            IF ~NsAuthorised(N, S, md, W_OK + SA_OK) THEN Return(N, S, "EPERM")
            ELSE IF md.isdir THEN SetDir(N, S, md)
            ELSE IF md.lnk THEN SetLink(N, S, md)
            ELSE SetFile(N, S, md, avail_files))

NsDELETE(md) ==
  LET N == CurNs
      S == CurStore
  IN Answer("DELETE", md,
            IF ~NsAuthorised(N, S, md, D_OK) THEN Return(N, S, "EPERM")
            ELSE Delete_(N, S, md))

\* the end of a hardlink creation: the parent is stored and the target is
\* broadcast without the writer lock
SetTail ==
  LET md == pending.md
      mdsent == BroadcastMD(CurStore, md, md.tgt, md.md_pino)
  IN /\ pending # NoPending
     /\ SetNs(updateStore(CurNs, md.md_pino))
     /\ pending' = NoPending
     /\ last' = [op |-> "SETTAIL", md |-> md, rc |-> "0", ack |-> NoAck, release |-> {},
                 mdsent |-> mdsent, deletion |-> {}, md_ino |-> md.tgt,
                 mutated |-> TRUE, locked |-> FALSE, steps |-> <<"updateStore", "Broadcast">>,
                 msgs |-> MDMsgs(CurStore, mdsent, md.tgt)]
     /\ UNCHANGED <<now, mMap, mUUIDView, lockmap, flushmap, capVars, history>>

----------------------------------------------------------------------------
(* The namespace when the server starts *)

BirthTime == [a \in {"sys.eos.btime"} |-> <<"0", ".", "0">>]

\* the root with the file x and the directory d; p2 of the second user with a
\* directory d that keeps the file k and has a recycle bin
BootContainers ==
  (1 :> [name |-> "/", parent |-> 1, uid |-> 0, recycle |-> FALSE,
         files |-> ("x" :> 1), dirs |-> ("p2" :> 2 @@ "d" :> 4)])
  @@ (2 :> [name |-> "p2", parent |-> 1, uid |-> 1, recycle |-> FALSE,
            files |-> EmptyMap, dirs |-> ("d" :> 5)])
  @@ (4 :> [name |-> "d", parent |-> 1, uid |-> 0, recycle |-> FALSE,
            files |-> EmptyMap, dirs |-> EmptyMap])
  @@ (5 :> [name |-> "d", parent |-> 2, uid |-> 1, recycle |-> TRUE,
            files |-> ("k" :> 2), dirs |-> EmptyMap])

BootFiles ==
  (1 :> [name |-> "x", cont |-> 1, attr |-> BirthTime])
  @@ (2 :> [name |-> "k", cont |-> 5, attr |-> BirthTime])


----------------------------------------------------------------------------
(* The threads of the broker and the locks they take                       *)
(*                                                                         *)
(* A function of the program is the sequence of its calls on the three     *)
(* reader/writer locks (the cap store "Cap", the client registry "Client", *)
(* the namespace view "ns"), of its calls of the transport (reply) and of  *)
(* the points where it changes the namespace or serialises its response.   *)
(* A scoped lock is released where its scope ends.                         *)

LockRead(m) == <<"LockRead", m>>
LockWrite(m) == <<"LockWrite", m>>
UnLock(m) == <<"UnLock", m>>
reply(type) == <<"reply", type>>

\* Caps::Get, Caps::Store, Caps::Delete: RWMutexWriteLock lLock(*this)
CapWriteLocks == <<LockWrite("Cap"), UnLock("Cap")>>

\* a read of the cap store under RWMutexReadLock lLock(Cap())
CapReadLocks == <<LockRead("Cap"), UnLock("Cap")>>

\* the read of the lease time in a scope of its own
LeasetimeLocks == <<LockRead("Client"), UnLock("Client")>>

\* Clients::ReleaseCAP, DeleteEntry, SendMD, SendCAP, Evict: the message is
\* handed to the transport in the scope of RWMutexReadLock lLock(*this)
SendLocks(type) == <<LockRead("Client"), reply(type), UnLock("Client")>>

\* Caps::BroadcastRelease, BroadcastDeletion, BroadcastMD: the recipients are
\* collected under the read lock of the cap store, lLock.Release(), then one
\* message per recipient
BroadcastLocks(type) == CapReadLocks \o SendLocks(type)

\* Caps::Imply
ImplyLocksHeld ==
  CapWriteLocks \o <<LockRead("Client"), LockWrite("Cap"), UnLock("Cap"), UnLock("Client")>>

ImplyLocks == CapWriteLocks \o LeasetimeLocks \o CapWriteLocks

\* FuseServer::FillContainerCAP
FillContainerCAPLocks == CapReadLocks \o LeasetimeLocks \o CapWriteLocks

\* Clients::Dispatch of a heartbeat: dropped, of a client seen the first time,
\* of a known client with an extension and a revocation
DispatchLocks(kind) ==
  <<LockWrite("Client"), UnLock("Client")>>
    \o (IF kind = "dropped" THEN <<>>
        ELSE CapWriteLocks \o CapWriteLocks
               \o (IF kind = "first" THEN <<reply("DROPCAPS"), reply("CONFIG")>>
                   ELSE CapWriteLocks))

\* Clients::MonitorHeartBeat with one client to evict for its version
MonitorHeartBeatLocks ==
  <<LockWrite("Client"), UnLock("Client")>> \o SendLocks("EVICT")

\* FuseServer::MonitorCaps with one cap whose quota state changed
MonitorCapsLocks == CapReadLocks \o CapReadLocks \o SendLocks("CAP")

\* Clients::Dropcaps with one cap to drop
DropcapsLocks == <<LockWrite("Cap")>> \o SendLocks("RELEASECAP") \o <<UnLock("Cap")>>

\* Clients::Print
PrintLocks == CapReadLocks \o <<LockRead("Client"), UnLock("Client")>>

\* Clients::SetHeartbeatInterval with one client
SetHeartbeatIntervalLocks ==
  <<LockWrite("Client"), reply("CONFIG"), UnLock("Client")>>

\* an access of the session map and the uuid view of the registry
readMaps == <<"read", "Client">>
modifyMaps == <<"modify", "Client">>

\* Clients::Evict, ReleaseCAP: the uuid view is read in the scope of the lock
SendAccess(type) == <<LockRead("Client"), readMaps, reply(type), UnLock("Client")>>

\* the HEARTBEAT case of the worker with statistics: Dispatch of a client seen
\* the first time stores the heartbeat under the write lock, HandleStatistics
\* writes the session after Dispatch returned
HeartbeatAccess ==
  <<LockWrite("Client"), modifyMaps, UnLock("Client")>>
    \o SubSeq(DispatchLocks("first"), 3, Len(DispatchLocks("first")))
    \o <<modifyMaps>>

\* Clients::MonitorHeartBeat with one client to evict for its version: the
\* sweep in the scope of the write lock, then Evict and the two erase calls
MonitorHeartBeatAccess ==
  <<LockWrite("Client"), modifyMaps, UnLock("Client")>> \o SendAccess("EVICT")
    \o <<modifyMaps>>

\* Clients::Dropcaps with one cap to drop: the uuid view is looked up under the
\* write lock of the cap store
DropcapsAccess ==
  <<LockWrite("Cap"), readMaps>> \o SendAccess("RELEASECAP") \o <<UnLock("Cap")>>

\* the broadcasts of a request after its response
NoBroadcast == <<>>

SetBroadcasts == BroadcastLocks("RELEASECAP")

DeleteBroadcasts == BroadcastLocks("RELEASECAP") \o BroadcastLocks("DENTRY")

\* HandleMD: GET of a directory, SET of a new directory and DELETE of a file
\* with a cap that is valid
GetLocks_ ==
  <<LockRead("ns")>> \o FillContainerCAPLocks \o <<UnLock("ns"), reply("CONTAINER")>>

SetLocks_ ==
  CapWriteLocks \o <<LockWrite("ns"), <<"mutate", "ns">>>> \o ImplyLocks
    \o <<UnLock("ns"), <<"SerializeToString", "response">>>> \o SetBroadcasts

DeleteLocks_ ==
  CapWriteLocks \o <<LockWrite("ns"), <<"mutate", "ns">>, UnLock("ns"),
                     <<"SerializeToString", "response">>>>
    \o DeleteBroadcasts \o CapWriteLocks

Workers == {"w1", "w2"}
Threads == Workers \cup {"bg"}

WorkerPrograms == {"GET", "SET", "DELETE", "HB dropped", "HB first", "HB known"}
OtherPrograms == {"MonitorHeartBeat", "MonitorCaps", "Dropcaps", "Print",
                  "SetHeartbeatInterval"}

Program(name) ==
  CASE name = "GET" -> GetLocks_
    [] name = "SET" -> SetLocks_
    [] name = "DELETE" -> DeleteLocks_
    [] name = "HB dropped" -> DispatchLocks("dropped")
    [] name = "HB first" -> DispatchLocks("first")
    [] name = "HB known" -> DispatchLocks("known")
    [] name = "MonitorHeartBeat" -> MonitorHeartBeatLocks
    [] name = "MonitorCaps" -> MonitorCapsLocks
    [] name = "Dropcaps" -> DropcapsLocks
    [] name = "Print" -> PrintLocks
    [] name = "SetHeartbeatInterval" -> SetHeartbeatIntervalLocks
    [] name = "HB statistics" -> HeartbeatAccess
    [] name = "MonitorHeartBeat maps" -> MonitorHeartBeatAccess
    [] name = "Dropcaps maps" -> DropcapsAccess
    [] OTHER -> <<>>

\* the messages that go to the other mounts
Broadcasts == {"RELEASECAP", "DENTRY", "MD"}

\* the messages a request owes once it changed the namespace, with one other
\* mount that holds a cap on the inode: SET of a directory a release of the
\* cap, DELETE a release of the cap and the deletion of the entry
Owed(name) == IF name = "SET" THEN 1 ELSE IF name = "DELETE" THEN 2 ELSE 0

\* a thread between two functions
Idle == [prog |-> "", pc |-> 1, caused |-> 0, queued |-> 0, after |-> {}]

\* the call a thread makes next
NextCall(t) == Program(thread[t].prog)[thread[t].pc]

Running(t) == thread[t].prog # "" /\ thread[t].pc <= Len(Program(thread[t].prog))

\* the locks a thread holds
Holds(t, m) == t \in mutex[m].w \cup mutex[m].r

\* SharedMutex: a reader waits for the writer, a writer for every holder
CanLock(t, call) ==
  IF call[1] = "LockRead" THEN mutex[call[2]].w = {}
  ELSE mutex[call[2]].w = {} /\ mutex[call[2]].r = {}

\* a thread enters a function; a request remembers the requests that were
\* complete by then
Begin(t, name) ==
  /\ thread[t].prog = ""
  /\ thread' = [u \in Threads |->
                  IF u = t
                  THEN [prog |-> name, pc |-> 1, caused |-> 0, queued |-> 0,
                        after |-> {v \in Workers \ {t} : thread[v].prog = ""}]
                  ELSE [thread[u] EXCEPT !.after = @ \ {t}]]
  /\ UNCHANGED mutex

\* the next call of a thread
Call(t) ==
  LET call == NextCall(t)
  IN /\ Running(t)
     /\ call[1] \in {"LockRead", "LockWrite"} => CanLock(t, call)
     /\ mutex' = CASE call[1] = "LockRead" -> [mutex EXCEPT ![call[2]].r = @ \cup {t}]
                   [] call[1] = "LockWrite" -> [mutex EXCEPT ![call[2]].w = {t}]
                   [] call[1] = "UnLock" ->
                        [mutex EXCEPT ![call[2]] = [w |-> @.w \ {t}, r |-> @.r \ {t}]]
                   [] OTHER -> mutex
     /\ thread' = [thread EXCEPT
                     ![t].pc = @ + 1,
                     ![t].caused = IF call[1] = "mutate" THEN Owed(thread[t].prog) ELSE @,
                     ![t].queued = IF call[1] = "reply" /\ call[2] \in Broadcasts
                                   THEN @ + 1 ELSE @]

\* the function returns
Return_(t) ==
  /\ thread[t].prog # ""
  /\ ~Running(t)
  /\ thread' = [thread EXCEPT ![t].prog = "", ![t].pc = 1, ![t].after = {}]
  /\ UNCHANGED mutex

----------------------------------------------------------------------------
(* Specification of the client registry with the lock table *)

NoExt == [x \in {} |-> 0]

\* heartbeats of the registry specification: any uuid, with or without shutdown,
\* old or current protocol, stamped now; or stamped before the offline window
FreshHeartbeats ==
  {hb \in [uuid : UUIDs, clock : {now}, protversion : {PROTOCOLV2 - 1, PROTOCOLV2},
           leasetime : {0}, shutdown : BOOLEAN, authextension : {NoExt},
           authrevocation : {{}}] :
     ~(hb.shutdown /\ hb.protversion < PROTOCOLV2)}

DelayedHeartbeats ==
  [uuid : UUIDs, clock : {c \in {now - (HeartBeatOfflineWindow + 1)} : c >= 0},
   protversion : {PROTOCOLV2}, leasetime : {0}, shutdown : {FALSE},
   authextension : {NoExt}, authrevocation : {{}}]

Init ==
  /\ now = 0
  /\ received = 0
  /\ mMap = EmptyMap
  /\ mUUIDView = EmptyMap
  /\ lockmap = EmptyMap
  /\ flushmap = EmptyMap
  /\ mCaps = EmptyMap
  /\ mClientCaps = EmptyMap
  /\ mClientInoCaps = EmptyMap
  /\ mInodeCaps = EmptyMap
  /\ mTimeOrderedCap = <<>>
  /\ waiting = NoWait
  /\ lockreq = NoWait
  /\ eosDirectoryService = BootContainers
  /\ eosFileService = BootFiles
  /\ dirStore = BootContainers
  /\ lastCid = 5
  /\ lastFid = 2
  /\ pending = NoPending
  /\ history = [made |-> EmptyMap, deleted |-> FALSE]
  /\ thread = [t \in Threads |-> Idle]
  /\ mutex = [m \in {"Cap", "Client", "ns"} |-> [w |-> {}, r |-> {}]]
  /\ outofquota = NoExt
  /\ flushcheck = NoCheck
  /\ last = [op |-> "Init"]

\* statistics are only written by HandleStatistics; they create a session when
\* the heartbeat before them was dropped
RegHeartbeat ==
  \E id \in Identities :
    \/ \E hb \in FreshHeartbeats : Heartbeat(id, hb, FALSE) /\ UNCHANGED <<received, extVars>>
    \/ \E hb \in DelayedHeartbeats, stats \in BOOLEAN :
         Heartbeat(id, hb, stats) /\ UNCHANGED <<received, extVars>>

RegSetLk ==
  \E u \in UUIDs, t \in {"WRLCK", "UNLCK"} : SetLk(1, 1, u, t, 0, 0) /\ UNCHANGED <<received, extVars>>

RegMonitorHeartBeat == MonitorHeartBeat /\ UNCHANGED <<received, extVars>>

\* the monitor thread sweeps once a second: a unit of time does not pass
\* without a sweep
RegAdvanceTime ==
  last.op = "MonitorHeartBeat" /\ now < MaxTime /\ AdvanceTime(1) /\ UNCHANGED <<received, extVars>>

Next ==
  \/ RegHeartbeat
  \/ RegMonitorHeartBeat
  \/ RegSetLk
  \/ RegAdvanceTime

Spec == Init /\ [][Next]_vars

----------------------------------------------------------------------------
(* Specification of the capability store with the requests that use it *)

\* the mounts: a transport identity with its uuid; the first is root, the second
\* owns the directories with mode r-x, and random auth-ids fall into disjoint pools
Mounts ==
  {[clientid |-> "A", clientuuid |-> "u1", mode |-> RootMode, pool |-> {"a1", "a2"}],
   [clientid |-> "B", clientuuid |-> "u2", mode |-> OwnerReadMode, pool |-> {"a3"}]}

\* the auth-ids a mount may name: its own, held by the store or not
OwnAuthIds(m) ==
  {a \in m.pool : a \in DOMAIN mCaps => mCaps[a].clientuuid = m.clientuuid}

\* the auth-ids of the caps a mount holds
HeldAuthIds(m) == {a \in DOMAIN mCaps : mCaps[a].clientuuid = m.clientuuid}

Requests(m, auths, inos, pinos) ==
  [clientid : {m.clientid}, clientuuid : {m.clientuuid}, authid : auths,
   md_ino : inos, md_pino : pinos]

\* an inode of a file: no directory has it
FileInode == MaxInode + 1

\* heartbeats of a mount: a lease, and at most one extension or one revocation
CapHeartbeats(m) ==
  [uuid : {m.clientuuid}, clock : {now}, protversion : {PROTOCOLV2},
   leasetime : {0, ShortLease}, shutdown : {FALSE},
   authextension : {NoExt}, authrevocation : {{}}]
  \cup
  [uuid : {m.clientuuid}, clock : {now}, protversion : {PROTOCOLV2},
   leasetime : {ShortLease}, shutdown : {FALSE},
   authextension : {[x \in {a} |-> ExtDelta] :
                      a \in {b \in HeldAuthIds(m) : mCaps[b].vtime + ExtDelta <= MaxVtime}},
   authrevocation : {{}}]
  \cup
  [uuid : {m.clientuuid}, clock : {now}, protversion : {PROTOCOLV2},
   leasetime : {ShortLease}, shutdown : {FALSE},
   authextension : {NoExt}, authrevocation : {{a} : a \in HeldAuthIds(m)}]

\* one more message is taken from the socket
Receive == received < MaxMessages /\ received' = received + 1 /\ UNCHANGED extVars

CapHeartbeat ==
  /\ Receive
  /\ \E m \in Mounts : \E hb \in CapHeartbeats(m) : Heartbeat(m.clientid, hb, FALSE)

CapGET ==
  Receive /\ \E m \in Mounts :
    \/ \E md \in Requests(m, OwnAuthIds(m), Inodes, {0}) : HandleGET(md, m.mode, md.authid)
    \/ \E md \in Requests(m, {""}, Inodes, {0}), a \in m.pool :
         Unused(CurStore, a) /\ HandleGET(md, m.mode, a)

\* inode numbers grow: a directory is younger than its parent
CapSET ==
  Receive /\ \E m \in Mounts, perm \in BOOLEAN :
    \/ \E md \in Requests(m, OwnAuthIds(m), Inodes, Inodes) :
         md.md_pino < md.md_ino /\ HandleSET(md, "dir", md.md_ino, "", perm)
    \/ \E md \in Requests(m, OwnAuthIds(m), {0}, Inodes), i \in Inodes, a \in m.pool :
         /\ md.md_pino < i
         /\ i \notin DOMAIN mInodeCaps
         /\ Unused(CurStore, a)
         /\ HandleSET(md, "mkdir", i, a, perm)
    \/ \E md \in Requests(m, OwnAuthIds(m), {0, FileInode}, Inodes) :
         HandleSET(md, "file", FileInode, "", perm)

CapDELETE ==
  Receive /\ \E m \in Mounts, perm \in BOOLEAN :
    \E md \in Requests(m, OwnAuthIds(m), Inodes \cup {FileInode}, Inodes) :
      md.md_pino < md.md_ino /\ HandleDELETE(md, perm)

CapDropcaps == Receive /\ \E u \in UUIDs : DropcapsCmd(u)

CapMonitorCaps == MonitorCaps /\ UNCHANGED <<received, extVars>>

CapAdvanceTime ==
  now < MaxCapSteps * TimeStep /\ AdvanceTime(TimeStep) /\ UNCHANGED <<received, extVars>>

NextCaps ==
  \/ CapHeartbeat
  \/ CapGET
  \/ CapSET
  \/ CapDELETE
  \/ CapDropcaps
  \/ CapMonitorCaps
  \/ CapAdvanceTime

SpecCaps == Init /\ [][NextCaps]_vars

----------------------------------------------------------------------------
(* Specification of the heartbeats that name caps: mounts get caps, and their *)
(* heartbeats ask to extend or to revoke any auth-id of the store             *)

\* heartbeats of a mount that name the auth-id of a cap of another mount
ForeignHeartbeats(m) ==
  LET foreign == DOMAIN mCaps \ HeldAuthIds(m)
  IN [uuid : {m.clientuuid}, clock : {now}, protversion : {PROTOCOLV2},
      leasetime : {ShortLease}, shutdown : {FALSE},
      authextension : {[x \in {a} |-> ExtDelta] :
                         a \in {b \in foreign : mCaps[b].vtime + ExtDelta <= MaxVtime}},
      authrevocation : {{}}]
     \cup
     [uuid : {m.clientuuid}, clock : {now}, protversion : {PROTOCOLV2},
      leasetime : {ShortLease}, shutdown : {FALSE},
      authextension : {NoExt}, authrevocation : {{a} : a \in foreign}]

CapForeignHeartbeat ==
  /\ Receive
  /\ \E m \in Mounts : \E hb \in ForeignHeartbeats(m) : Heartbeat(m.clientid, hb, FALSE)

NextHeartbeats ==
  \/ CapHeartbeat
  \/ CapGET
  \/ CapForeignHeartbeat

SpecHeartbeats == Init /\ [][NextHeartbeats]_vars

----------------------------------------------------------------------------
(* Specification of the quota pass of MonitorCaps: mounts get caps and renew *)
(* them, the monitor checks the quota nodes, and hours pass                 *)

\* the answers of Quota::QuotaBySpace
QuotaAnswers ==
  {[ok |-> FALSE, files |-> 0, bytes |-> 0]} \cup [ok : {TRUE}, files : {0, 1}, bytes : {0, 1}]

\* the mount of the quota specification
QuotaMounts == {m \in Mounts : m.clientid = "A"}

QtReceive == received < MaxQuotaMessages /\ received' = received + 1 /\ UNCHANGED extVars

\* a heartbeat that asks for the default lease
QtHeartbeat ==
  /\ QtReceive
  /\ \E m \in QuotaMounts :
       Heartbeat(m.clientid,
                 [uuid |-> m.clientuuid, clock |-> now, protversion |-> PROTOCOLV2,
                  leasetime |-> 0, shutdown |-> FALSE, authextension |-> NoExt,
                  authrevocation |-> {}], FALSE)

\* GET of the root directory, with the auth-id of an earlier cap or without
QtGET ==
  QtReceive /\ \E m \in QuotaMounts :
    \/ \E md \in Requests(m, OwnAuthIds(m), {1}, {0}) : HandleGET(md, m.mode, md.authid)
    \/ \E md \in Requests(m, {""}, {1}, {0}), a \in m.pool :
         Unused(CurStore, a) /\ HandleGET(md, m.mode, a)

QtMonitorCapsQuota ==
  /\ \E bySpace \in [UUIDs -> QuotaAnswers] :
       /\ \A u \in UUIDs : bySpace[u].ok => \E m \in QuotaMounts : m.clientuuid = u
       /\ MonitorCapsQuota(bySpace)
  /\ UNCHANGED <<received, lkVars, nsVars, thVars, flushcheck>>

QtAdvanceTime ==
  /\ now < MaxQuotaSteps * QuotaTimeStep
  /\ AdvanceTime(QuotaTimeStep)
  /\ UNCHANGED <<received, extVars>>

NextQuota ==
  \/ QtHeartbeat
  \/ QtGET
  \/ QtMonitorCapsQuota
  \/ QtAdvanceTime

SpecQuota == Init /\ [][NextQuota]_vars

----------------------------------------------------------------------------
(* Specification of the flush tracker: mounts open and close flush windows, *)
(* a thread asks hasFlush, the monitor expires, and seconds pass            *)

FlBeginFlush ==
  /\ \E m \in Mounts : \E md \in Requests(m, {""}, Inodes, {0}) : HandleBEGINFLUSH(md)
  /\ UNCHANGED <<received, lkVars, nsVars, thVars, qtVars>>

FlEndFlush ==
  /\ \E m \in Mounts : \E md \in Requests(m, {""}, Inodes, {0}) : HandleENDFLUSH(md)
  /\ UNCHANGED <<received, lkVars, nsVars, thVars, qtVars>>

FlHasFlush ==
  /\ IF flushcheck = NoCheck
     THEN \E id \in Inodes : hasFlush(id, 0)
     ELSE hasFlush(flushcheck.id, flushcheck.i)
  /\ UNCHANGED <<received, lkVars, nsVars, thVars, outofquota>>

FlAdvanceTime ==
  now < MaxFlushTime /\ AdvanceTime(1) /\ UNCHANGED <<received, extVars>>

NextFlush ==
  \/ FlBeginFlush
  \/ FlEndFlush
  \/ FlHasFlush
  \/ RegMonitorHeartBeat
  \/ FlAdvanceTime

SpecFlush == Init /\ [][NextFlush]_vars

----------------------------------------------------------------------------
(* Specification of the namespace requests *)

\* the uid a mount is mapped to
MountUid(m) == IF m.mode = RootMode THEN 0 ELSE 1

\* the mode FillContainerCAP grants: everything to root, rwx to the owner, r-x to others
NsCapMode(m, id) ==
  IF MountUid(m) = 0 THEN RootMode
  ELSE IF id \in DOMAIN eosDirectoryService /\ eosDirectoryService[id].uid = MountUid(m)
  THEN S_IFDIR + R_OK + M_OK + SU_OK + U_OK + W_OK + D_OK + SA_OK + X_OK
  ELSE S_IFDIR + R_OK + X_OK

\* the directories requests name as parent
ParentIds == {1, 2}

\* the attributes a client holds of a file: those GET shows now, or those it
\* showed before the file got its counter
ClientAttrs(ino) ==
  LET shown == FillFileMD(CurNs, ino).attr
  IN {shown, MapErase(shown, k_nlink)}

NsMd(m, authid, md_ino, md_pino, name, isdir) ==
  [clientid |-> m.clientid, clientuuid |-> m.clientuuid, uid |-> MountUid(m),
   authid |-> authid, md_ino |-> md_ino, md_pino |-> md_pino, name |-> name,
   isdir |-> isdir, lnk |-> FALSE, excl |-> FALSE, hlnk |-> FALSE, tgt |-> 0,
   attr |-> EmptyMap,
   implied_authid |-> "", mv_authid |-> "", reqid |-> received + 1]

\* the auth-ids a mount sends: one of its caps, or none
SentAuthIds(m) == {""} \cup HeldAuthIds(m)

\* the random uuid of the next cap of a mount
NextAuthId(m) ==
  {a \in m.pool : Unused(CurStore, a)
                  /\ \A b \in m.pool : Unused(CurStore, b) => AuthRank(a) <= AuthRank(b)}

\* the directories that list a file, and the names they list it under
ParentsOf(fid) ==
  {p \in DOMAIN eosDirectoryService :
     \E n \in DOMAIN eosDirectoryService[p].files : eosDirectoryService[p].files[n] = fid}

NamesOf(p, fid) ==
  {n \in DOMAIN eosDirectoryService[p].files : eosDirectoryService[p].files[n] = fid}

NsReceive ==
  received < MaxNsMessages /\ received' = received + 1 /\ UNCHANGED <<lkVars, thVars, qtVars>>

NsGET ==
  /\ NsReceive
  /\ \E m \in Mounts : \E id \in ParentIds, a \in NextAuthId(m) :
       HandleGET([clientid |-> m.clientid, clientuuid |-> m.clientuuid, authid |-> "",
                  md_ino |-> id, md_pino |-> 0], NsCapMode(m, id), a)
  /\ UNCHANGED nsVars

\* the sub-directories of a directory in an order of the iteration of the
\* children map
KidsOf(m, id) ==
  LET dirs == eosDirectoryService[id].dirs
      names == DOMAIN dirs
  IN {k \in [1 .. Cardinality(names) -> [name : names, id : {dirs[n] : n \in names},
                                         mode : {NsCapMode(m, dirs[n]) : n \in names}]] :
        /\ \A i \in DOMAIN k : k[i].id = dirs[k[i].name] /\ k[i].mode = NsCapMode(m, k[i].id)
        /\ \A i \in DOMAIN k : \A j \in DOMAIN k : k[i].name = k[j].name => i = j}

\* LS of the root or of p2, by a mount that has auth-ids left for the caps
NsLS ==
  /\ NsReceive
  /\ \E m \in Mounts : \E id \in ParentIds, a \in NextAuthId(m) :
       /\ Cardinality({b \in m.pool : Unused(CurStore, b)})
            > Cardinality({n \in DOMAIN eosDirectoryService[id].dirs : Hidden(n)})
       /\ \E kids \in KidsOf(m, id) :
            HandleLS([clientid |-> m.clientid, clientuuid |-> m.clientuuid, authid |-> "",
                      md_ino |-> id, md_pino |-> 0], NsCapMode(m, id), a, m.pool, kids)
  /\ UNCHANGED nsVars

\* mkdir in p2 with O_EXCL, with an implied cap or without
NsMkdir ==
  /\ NsReceive
  /\ lastCid < MaxCid
  /\ \E m \in Mounts : \E a \in SentAuthIds(m), name \in {"d", "e", ".h", AtomicName},
        i \in {""} \cup NextAuthId(m) :
       NsSET([NsMd(m, a, 0, 2, name, TRUE) EXCEPT !.excl = TRUE, !.implied_authid = i], 1)

\* update, rename or move of the directory d of the root, or of a directory
\* that is not there
NsSetDir ==
  /\ NsReceive
  /\ \E m \in Mounts : \E a \in SentAuthIds(m), id \in {4, MaxCid}, p \in ParentIds,
        name \in {"d", "e"}, excl \in BOOLEAN :
       /\ (id \in DOMAIN eosDirectoryService /\ p \in DOMAIN eosDirectoryService
           /\ eosDirectoryService[id].parent = p /\ eosDirectoryService[id].name # name)
            => name \notin DOMAIN eosDirectoryService[p].dirs
       /\ excl => name = "d" /\ p = 1
       /\ NsSET([NsMd(m, a, id, p, name, TRUE) EXCEPT !.excl = excl, !.mv_authid = a], 1)

\* creation of a file in p2, with O_EXCL under the name of the directory d
NsCreate ==
  /\ NsReceive
  /\ lastFid < MaxFid
  /\ \E m \in Mounts : \E a \in SentAuthIds(m), name \in {"y", "d", AtomicName},
        avail_files \in {0, 1} :
       /\ name \notin DOMAIN eosDirectoryService[2].files
       /\ NsSET([NsMd(m, a, 0, 2, name, FALSE) EXCEPT !.excl = (name = "d")], avail_files)

\* update, rename or move of a file
NsSetFile ==
  /\ NsReceive
  /\ \E m \in Mounts : \E a \in SentAuthIds(m), f \in {1, 3}, p \in ParentIds,
        name \in {"x", "y"}, excl \in BOOLEAN :
       \E attr \in ClientAttrs(FidToInode(f)) :
         /\ excl => name = "x" /\ p = 1 /\ attr = FillFileMD(CurNs, FidToInode(f)).attr
         /\ NsSET([NsMd(m, a, FidToInode(f), p, name, FALSE)
                     EXCEPT !.excl = excl, !.attr = attr], 1)

\* creation of a hardlink to x, to a link or to a file that is not there
NsHardlink ==
  /\ NsReceive
  /\ lastFid < MaxFid
  /\ pending = NoPending
  /\ \E m \in Mounts : \E a \in SentAuthIds(m), t \in {1, 3, MaxFid}, p \in ParentIds,
        name \in {"y", "d"} :
       /\ name \notin DOMAIN eosDirectoryService[p].files
       /\ NsSET([NsMd(m, a, 0, p, name, FALSE) EXCEPT !.hlnk = TRUE, !.tgt = FidToInode(t)], 1)

\* SET of a symbolic link in the root: a new one, or one the client holds the
\* inode of, under its name or under another
NsSymlink ==
  /\ NsReceive
  /\ lastFid < MaxFid
  /\ \E m \in Mounts : \E a \in SentAuthIds(m), f \in {0, 1}, name \in {"x", "l"},
        excl \in BOOLEAN :
       NsSET([NsMd(m, a, IF f = 0 THEN 0 ELSE FidToInode(f), 1, name, FALSE)
                EXCEPT !.lnk = TRUE, !.excl = excl], 1)

NsSetTail == SetTail /\ UNCHANGED <<received, lkVars, thVars, qtVars>>

\* rmdir of a directory by its parent
NsRmdir ==
  /\ NsReceive
  /\ \E m \in Mounts : \E a \in SentAuthIds(m), id \in {4, 5, MaxCid} :
       \E p \in IF id \in DOMAIN eosDirectoryService
                THEN {eosDirectoryService[id].parent} ELSE {1} :
         NsDELETE(NsMd(m, a, id, p, "d", TRUE))

\* DELETE of a file or a link by a directory that lists it, or of a file that
\* is not there
NsUnlink ==
  /\ NsReceive
  /\ \E m \in Mounts : \E a \in SentAuthIds(m), f \in 1 .. MaxFid :
       \/ \E p \in ParentsOf(f) : \E n \in NamesOf(p, f) :
            f \in DOMAIN eosFileService /\ NsDELETE(NsMd(m, a, FidToInode(f), p, n, FALSE))
       \/ f = MaxFid /\ f \notin DOMAIN eosFileService
            /\ NsDELETE(NsMd(m, a, FidToInode(f), 1, "x", FALSE))

NextNs ==
  \/ NsGET
  \/ NsLS
  \/ NsMkdir
  \/ NsSetDir
  \/ NsCreate
  \/ NsSetFile
  \/ NsHardlink
  \/ NsSymlink
  \/ NsSetTail
  \/ NsRmdir
  \/ NsUnlink

SpecNs == Init /\ [][NextNs]_vars

----------------------------------------------------------------------------
(* Specification of the lock table with SETLK, SETLKW and dropLocks *)

\* the lock requests of the wire: a holder, a type and a byte range
LockRequests ==
  [type : {"RDLCK", "WRLCK", "UNLCK"}, ino : {1}, pid : 1 .. MaxPid, owner : UUIDs,
   start : 0 .. MaxStart, len : 0 .. MaxLen]

\* the requests that wait: locks of the first process on the whole file or its head
WaitRequests == {r \in LockRequests : r.type # "UNLCK" /\ r.pid = 1 /\ r.start = 0}

\* one more request or call, out of MaxMessages
LkReceive ==
  received < MaxMessages /\ received' = received + 1 /\ UNCHANGED <<nsVars, thVars, qtVars>>

LkSetLk ==
  \E r \in LockRequests :
    /\ SetLk(r.ino, r.pid, r.owner, r.type, r.start, r.len)
    /\ LkReceive
    /\ lockreq' = r
    /\ UNCHANGED waiting

LkSetLkw ==
  \E r \in WaitRequests :
    /\ SetLkw(r.ino, r.pid, r.owner, r.type, r.start, r.len)
    /\ LkReceive
    /\ lockreq' = r

LkSetLkwRetry ==
  /\ SetLkwRetry
  /\ lockreq' = [k \in DOMAIN waiting \ {"tries", "detached"} |-> waiting[k]]
  /\ UNCHANGED <<received, nsVars, thVars, qtVars>>

LkDropLocks == \E o \in UUIDs : DropLocks(o) /\ LkReceive /\ UNCHANGED lockreq

NextLocks ==
  \/ LkSetLk
  \/ LkSetLkw
  \/ LkSetLkwRetry
  \/ LkDropLocks

SpecLocks == Init /\ [][NextLocks]_vars

----------------------------------------------------------------------------
(* Specification of the threads: the workers of ZMQ::Worker::work, and the *)
(* monitors and the console in one more thread                             *)

ThBegin ==
  /\ \/ \E t \in Workers, name \in WorkerPrograms : Begin(t, name)
     \/ \E name \in OtherPrograms : Begin("bg", name)
  /\ UNCHANGED <<now, received, mMap, mUUIDView, lockmap, flushmap, capVars, lkVars,
                 nsVars, qtVars, last>>

ThCall ==
  /\ \E t \in Threads : Call(t)
  /\ UNCHANGED <<now, received, mMap, mUUIDView, lockmap, flushmap, capVars, lkVars,
                 nsVars, qtVars, last>>

ThReturn ==
  /\ \E t \in Threads : Return_(t)
  /\ UNCHANGED <<now, received, mMap, mUUIDView, lockmap, flushmap, capVars, lkVars,
                 nsVars, qtVars, last>>

NextThreads ==
  \/ ThBegin
  \/ ThCall
  \/ ThReturn

SpecThreads == Init /\ [][NextThreads]_vars

----------------------------------------------------------------------------
(* Specification of the threads that use the registry: the workers take    *)
(* heartbeats with statistics, one more thread runs the monitor of the      *)
(* heartbeats and the dropcaps command                                      *)

AcBegin ==
  /\ \/ \E t \in Workers : Begin(t, "HB statistics")
     \/ \E name \in {"MonitorHeartBeat maps", "Dropcaps maps"} : Begin("bg", name)
  /\ UNCHANGED <<now, received, mMap, mUUIDView, lockmap, flushmap, capVars, lkVars,
                 nsVars, qtVars, last>>

NextAccess ==
  \/ AcBegin
  \/ ThCall
  \/ ThReturn

SpecAccess == Init /\ [][NextAccess]_vars

----------------------------------------------------------------------------
(* The two permission evaluators: FillContainerCAP for an identity that is  *)
(* not root, and ValidatePERM.  The mode of a cap is the set of its bits,   *)
(* the mode of a container the set of its permission bits (sys.mask is not  *)
(* set); the flags of the Acl object and the answers of                     *)
(* IContainerMD::access are inputs.                                         *)

\* FuseServer::FillContainerCAP: the bits of the mode of the cap, vid.uid # 0
CapPermissions(vid, dir, acl) ==
  LET write == {U_OK, W_OK, D_OK, SA_OK, M_OK, SU_OK}
      sudo == IF vid.sudoer THEN {C_OK, M_OK, U_OK, W_OK, D_OK, SA_OK, SU_OK} ELSE {}
      user == IF vid.uid = dir.uid
              THEN (IF "S_IRUSR" \in dir.mode THEN {R_OK, M_OK, SU_OK} ELSE {})
                     \cup (IF "S_IWUSR" \in dir.mode THEN write ELSE {})
                     \cup (IF "S_IXUSR" \in dir.mode THEN {X_OK} ELSE {})
              ELSE {}
      group == IF vid.gid = dir.gid
               THEN (IF "S_IRGRP" \in dir.mode THEN {R_OK} ELSE {})
                      \cup (IF "S_IWGRP" \in dir.mode THEN write ELSE {})
                      \cup (IF "S_IXGRP" \in dir.mode THEN {X_OK} ELSE {})
               ELSE {}
      other == (IF "S_IROTH" \in dir.mode THEN {R_OK} ELSE {})
                 \cup (IF "S_IWOTH" \in dir.mode THEN write ELSE {})
                 \cup (IF "S_IXOTH" \in dir.mode THEN {X_OK} ELSE {})
      m0 == sudo \cup user \cup group \cup other
      m1 == m0 \cup (IF acl.CanRead THEN {R_OK} ELSE {})
      m2 == m1 \cup (IF acl.CanWrite \/ acl.CanWriteOnce THEN {W_OK, SA_OK, D_OK, M_OK} ELSE {})
      m3 == m2 \cup (IF acl.CanBrowse THEN {X_OK} ELSE {})
      m4 == IF acl.CanNotChmod THEN m3 \ {M_OK} ELSE m3
      m5 == m4 \cup (IF acl.CanChmod THEN {M_OK} ELSE {})
      m6 == m5 \cup (IF acl.CanChown THEN {C_OK} ELSE {})
      m7 == m6 \cup (IF acl.CanUpdate THEN {U_OK, SA_OK} ELSE {})
      m8 == IF vid.uid # dir.uid /\ acl.CanNotDelete THEN m7 \ {D_OK} ELSE m7
  IN IF acl.HasAcl /\ acl.IsMutable THEN m8 ELSE m0

\* FuseServer::ValidatePERM: r_ok, w_ok, x_ok and d_ok before accperm is built
GrantedPerm(acc, acl) ==
  LET w0 == acc.w
      d0 == acc.w
      w1 == IF acl.CanWrite THEN TRUE ELSE w0
      d1 == IF acl.CanWrite THEN TRUE ELSE d0
      w2 == IF ~(acl.CanWrite \/ acl.CanWriteOnce) THEN FALSE ELSE w1
      d2 == IF acl.CanNotDelete THEN FALSE ELSE d1
  IN IF acl.HasAcl
     THEN [r |-> acc.r \/ acl.CanRead,
           w |-> IF acl.IsMutable THEN w2 ELSE FALSE,
           x |-> acc.x \/ acl.CanBrowse,
           d |-> IF acl.IsMutable THEN d2 ELSE FALSE]
     ELSE [r |-> acc.r, w |-> w0, x |-> acc.x, d |-> d0]

\* the identities: the owner of the container and another user, in its group
\* or not, sudoer or not
Vids == [uid : {1, 2}, gid : {1, 2}, sudoer : BOOLEAN]

\* the containers of uid 1 and gid 1: rwx------, rwxr-x---, r-xr-xr-x
Dirs ==
  [uid : {1}, gid : {1},
   mode : {{"S_IRUSR", "S_IWUSR", "S_IXUSR"},
           {"S_IRUSR", "S_IWUSR", "S_IXUSR", "S_IRGRP", "S_IXGRP"},
           {"S_IRUSR", "S_IXUSR", "S_IRGRP", "S_IXGRP", "S_IROTH", "S_IXOTH"}}]

Acls ==
  [HasAcl : BOOLEAN, IsMutable : BOOLEAN, CanRead : BOOLEAN, CanWrite : BOOLEAN,
   CanWriteOnce : BOOLEAN, CanBrowse : BOOLEAN, CanNotChmod : BOOLEAN, CanChmod : {FALSE},
   CanChown : {FALSE}, CanUpdate : BOOLEAN, CanNotDelete : BOOLEAN]

\* one container is evaluated for one identity by both evaluators; neither
\* changes the state of the program, so one evaluation is looked at
Evaluate(vid, dir, acl, acc) ==
  /\ last' = [op |-> "Evaluate", vid |-> vid, dir |-> dir, acl |-> acl, acc |-> acc,
              cap |-> CapPermissions(vid, dir, acl), perm |-> GrantedPerm(acc, acl)]
  /\ UNCHANGED <<now, received, mMap, mUUIDView, lockmap, flushmap, capVars, extVars>>

PermEvaluate ==
  /\ last.op = "Init"
  /\ \E vid \in Vids, dir \in Dirs, acl \in Acls, w \in BOOLEAN :
       Evaluate(vid, dir, acl, [r |-> TRUE, w |-> w, x |-> TRUE])

NextPerm == PermEvaluate

SpecPerm == Init /\ [][NextPerm]_vars

----------------------------------------------------------------------------
(* Properties of the threads *)

\* a thread waits for a lock
Blocked(t) ==
  Running(t) /\ NextCall(t)[1] \in {"LockRead", "LockWrite"} /\ ~CanLock(t, NextCall(t))

\* the threads that hold a lock
Holders(m) == mutex[m].w \cup mutex[m].r

\* threads that wait for the cap store or the registry, each for a lock that
\* only threads among them hold
Deadlocked(D) ==
  /\ D # {}
  /\ \A t \in D : /\ Blocked(t)
                   /\ NextCall(t)[2] \in {"Cap", "Client"}
                   /\ Holders(NextCall(t)[2]) \subseteq D

\* C22: no thread takes the lock of the cap store while it holds the lock of
\* the registry, and no set of threads waits in a cycle for these two locks
C22_CapStoreBeforeRegistry ==
  /\ \A t \in Threads :
       (Running(t) /\ NextCall(t)[1] \in {"LockRead", "LockWrite"}
          /\ NextCall(t)[2] = "Cap") => ~Holds(t, "Client")
  /\ \A D \in SUBSET Threads : ~Deadlocked(D)

\* a thread holds both locks while another thread waits for one of them
C22_Witness ==
  \E t \in Threads : /\ Holds(t, "Cap")
                      /\ Holds(t, "Client")
                      /\ \E u \in Threads \ {t} : Blocked(u) /\ NextCall(u)[2] = "Cap"

\* C23: no thread hands a message to the transport while it holds the lock of
\* the registry
C23_ReplyWithoutRegistryLock ==
  \A t \in Threads : (Running(t) /\ NextCall(t)[1] = "reply") => ~Holds(t, "Client")

\* a request is about to return
Returning(t) == thread[t].prog # "" /\ ~Running(t)

Accesses(t, kinds) ==
  Running(t) /\ NextCall(t)[1] \in kinds /\ NextCall(t)[2] = "Client"

\* C40: a thread reads the session map and the uuid view only while it holds
\* the lock of the registry, and modifies them only while it holds it as the
\* writer; no two threads are at an access of the maps of which one modifies
C40_RegistryMapsUnderLock ==
  /\ \A t \in Threads :
       /\ Accesses(t, {"read"}) => Holds(t, "Client")
       /\ Accesses(t, {"modify"}) => t \in mutex["Client"].w
  /\ \A t \in Threads : \A u \in Threads \ {t} :
       ~(Accesses(t, {"modify"}) /\ Accesses(u, {"read", "modify"}))

----------------------------------------------------------------------------
(* Properties of the namespace requests *)

\* the namespace: containers, files and their stored form
Namespace == <<eosDirectoryService, eosFileService, dirStore>>

\* a mount may write into a directory: by the access check or by a cap it holds
WriteOn(md, p) ==
  \/ p \in DOMAIN eosDirectoryService /\ access(CurNs, p, md.uid)
  \/ \E a \in DOMAIN mCaps : /\ mCaps[a].clientuuid = md.clientuuid
                            /\ mCaps[a].id = p
                            /\ BitAnd(mCaps[a].mode, W_OK) = W_OK

\* the parent of the directory or file a request names (0 when it is not there)
ParentOf(md) ==
  IF md.isdir
  THEN (IF md.md_ino \in DOMAIN eosDirectoryService
        THEN eosDirectoryService[md.md_ino].parent ELSE 0)
  ELSE (IF InodeToFid(md.md_ino) \in DOMAIN eosFileService
        THEN eosFileService[InodeToFid(md.md_ino)].cont ELSE 0)

\* C14: a SET that moves a file or a directory to another parent, sent by a
\* mount that may write into the new parent but not into the old one, returns
\* EPERM, changes nothing in the namespace and broadcasts nothing
C14_MoveNeedsSourceWrite ==
  [][(/\ last'.op = "SET"
      /\ last'.md.md_ino # 0
      /\ ParentOf(last'.md) \notin {0, last'.md.md_pino}
      /\ WriteOn(last'.md, last'.md.md_pino)
      /\ ~WriteOn(last'.md, ParentOf(last'.md))) =>
       /\ last'.rc = "EPERM"
       /\ Namespace' = Namespace
       /\ last'.release = {} /\ last'.mdsent = {} /\ last'.msgs = {}]_vars

\* a request that failed: an error was returned or the failure was acknowledged
Failed(l) == l.rc # "0" \/ l.ack.code = "PERMANENT_FAILURE"

\* C18: a SET or DELETE that fails leaves the namespace as it was, broadcasts
\* nothing and stores no cap
C18_FailureLeavesNoTrace ==
  [][(last'.op \in {"SET", "DELETE"} /\ Failed(last')) =>
       /\ Namespace' = Namespace
       /\ capVars' = capVars
       /\ last'.release = {} /\ last'.mdsent = {} /\ last'.deletion = {}
       /\ last'.msgs = {}]_vars

\* C19: a SET or DELETE that does not succeed answers with an ACK of code
\* PERMANENT_FAILURE that carries err_no, err_msg and the transaction id of
\* the request
C19_ErrorsAreAcknowledged ==
  (last.op \in {"SET", "DELETE"} /\ (last.rc # "0" \/ last.ack.code # "OK")) =>
    /\ last.ack.code = "PERMANENT_FAILURE"
    /\ last.ack.transactionid = last.md.reqid
    /\ last.ack.err_no \notin {"", "0"}
    /\ last.ack.err_msg # ""

\* C20: the calls of SET and DELETE that change the namespace or write it to
\* the store are made while the request holds the writer lock of the namespace
C20_MutationsUnderWriterLock ==
  (last.op \in {"SET", "SETTAIL", "DELETE"} /\ last.mutated) => last.locked

\* the positions of a call in the steps of the last request
At(call) == {i \in DOMAIN last.steps : last.steps[i] = call}

\* C21: a SET or DELETE serialises its reply and issues its broadcasts only
\* after it released the namespace writer lock, and the reply is serialised in
\* front of the broadcasts
C21_ReplyAndBroadcastUnlocked ==
  last.op \in {"SET", "DELETE"} =>
    /\ \A i \in At("SerializeToString") \cup At("Broadcast") :
         \E j \in At("lock.Release") : j < i
    /\ \A i \in At("Broadcast") : \E j \in At("SerializeToString") : j < i

\* the directories of a view that list a file
Listing(N, fid) ==
  {p \in DOMAIN N.c : \E n \in DOMAIN N.c[p].files : N.c[p].files[n] = fid}

\* the link entries of a view that point at a file
LinksTo(N, t) ==
  {g \in DOMAIN N.f : /\ Listing(N, g) # {}
                      /\ k_mdino \in DOMAIN N.f[g].attr
                      /\ stoi(N.f[g].attr[k_mdino]) = FidToInode(t)}

\* the references to a file: its link entries, and the file under its own name
References(N, t) ==
  LinksTo(N, t)
    \cup {f \in {t} : f \in DOMAIN N.f /\ Listing(N, f) # {} /\ N.f[f].name # ShelterName(f)}

\* a file is removed: it has no object, or it is detached and no directory lists it
Removed(N, t) == t \notin DOMAIN N.f \/ (N.f[t].cont = 0 /\ Listing(N, t) = {})

\* the counter of a file (-1 when it has none)
Counter(N, t) ==
  IF t \in DOMAIN N.f /\ k_nlink \in DOMAIN N.f[t].attr THEN stoi(N.f[t].attr[k_nlink])
  ELSE -1

\* the last request was a DELETE of a file or link entry that succeeded
Unlinked(l) ==
  l.op = "DELETE" /\ ~l.md.isdir /\ l.rc = "0" /\ l.ack.code = "OK"

\* C11: while no DELETE has succeeded, the counter sys.eos.nlink of a file
\* that is still there is the number of hardlink creations that succeeded for
\* it (a rename onto the file takes it away); a DELETE of a link
\* entry whose target has other references takes one off the counter of the
\* target; a DELETE of the last reference of a file removes the file
C11_HardlinkCounter ==
  [][LET N == CurNs
         e == InodeToFid(last'.md.md_ino)
         t == IF k_mdino \in DOMAIN N.f[e].attr
              THEN InodeToFid(stoi(N.f[e].attr[k_mdino])) ELSE e
     IN /\ ~history'.deleted =>
             \A i \in DOMAIN history'.made :
               InodeToFid(i) \in DOMAIN CurNs'.f =>
                 Counter(CurNs', InodeToFid(i)) = history'.made[i]
        /\ (Unlinked(last') /\ e \in DOMAIN N.f /\ t # e /\ References(N, t) \ {e} # {}) =>
             Counter(CurNs', t) = Counter(N, t) - 1
        /\ (Unlinked(last') /\ e \in DOMAIN N.f /\ Listing(N, e) # {}
              /\ e \in References(N, t) /\ References(N, t) \ {e} = {}) =>
             Removed(CurNs', t)]_vars

\* C12: a DELETE of a file that has hardlinks keeps the file under its shelter
\* name with the counter one lower, and GET through every link still finds it;
\* the DELETE of the last link of a sheltered file removes the file
C12_ShelteredWhileLinked ==
  [][LET N == CurNs
         N1 == CurNs'
         e == InodeToFid(last'.md.md_ino)
         t == InodeToFid(stoi(N.f[e].attr[k_mdino]))
     IN /\ (Unlinked(last') /\ e \in DOMAIN N.f /\ k_mdino \notin DOMAIN N.f[e].attr
              /\ N.f[e].name # ShelterName(e) /\ LinksTo(N, e) # {}) =>
             /\ e \in DOMAIN N1.f
             /\ N1.f[e].name = ShelterName(e)
             /\ N1.f[e].cont \in Listing(N1, e)
             /\ Counter(N1, e) = Counter(N, e) - 1
             /\ Cardinality(LinksTo(N, e)) = 1 => N1.f[e].attr[k_nlink] = <<"0">>
             /\ \A y \in LinksTo(N, e) : FillFileMD(N1, FidToInode(y)).err = "0"
        /\ (Unlinked(last') /\ e \in DOMAIN N.f /\ k_mdino \in DOMAIN N.f[e].attr
              /\ t \in DOMAIN N.f /\ Listing(N, t) # {} /\ N.f[t].name = ShelterName(t)
              /\ LinksTo(N, t) = {e}) =>
             Removed(N1, t)]_vars

\* where a directory or a file of a view is: its parent and its name
Place(N, isdir, id) ==
  IF isdir
  THEN (IF id \in DOMAIN N.c THEN <<N.c[id].parent, N.c[id].name>> ELSE <<0, "">>)
  ELSE (IF id \in DOMAIN N.f THEN <<N.f[id].cont, N.f[id].name>> ELSE <<0, "">>)

\* the directories or the files of a view, and the entries of a container
Objects(N, isdir) == IF isdir THEN DOMAIN N.c ELSE DOMAIN N.f

Entries(N, isdir, p) == IF isdir THEN N.c[p].dirs ELSE N.c[p].files

\* the directory or the file a request names
Ident(md, md_ino) == IF md.isdir THEN md_ino ELSE InodeToFid(md_ino)

\* the kind of a SET by its payload and by the stored parent and name
SetKind(N, md) ==
  LET at == Place(N, md.isdir, Ident(md, md.md_ino))
  IN IF md.md_ino = 0 THEN "CREATE"
     ELSE IF at[1] # md.md_pino THEN "MOVE"
     ELSE IF at[2] # md.name THEN "RENAME"
     ELSE "UPDATE"

\* every other directory and file that is kept stays where it was
OthersStay(N, M, md, id) ==
  \A k \in BOOLEAN :
    \A o \in Objects(N, k) \cap Objects(M, k) :
      (k # md.isdir \/ o # id) => Place(M, k, o) = Place(N, k, o)

\* the directory or the file is listed by the parent and under the name of the
\* request
Placed(M, md, id) ==
  /\ Place(M, md.isdir, id) = <<md.md_pino, md.name>>
  /\ md.name \in DOMAIN Entries(M, md.isdir, md.md_pino)
  /\ Entries(M, md.isdir, md.md_pino)[md.name] = id

\* C28: a SET that succeeds has the effect of the one kind its payload gives
\* it: without md_ino a new object is created in the parent and nothing that
\* exists is placed elsewhere; with md_ino, the stored parent and the stored
\* name an UPDATE changes no listing, with another name a RENAME lists the
\* object under the new name of the same parent and no longer under the old
\* one, with another parent a MOVE lists it in the new parent and no longer in
\* the old one; RENAME, MOVE and UPDATE create nothing
C28_SetKinds ==
  [][LET N == CurNs
         M == CurNs'
         md == last'.md
         id == Ident(md, md.md_ino)
         new == Ident(md, last'.md_ino)
         at == Place(N, md.isdir, id)
         kind == SetKind(N, md)
     IN (last'.op = "SET" /\ ~Failed(last')) =>
          /\ kind = "CREATE" =>
               /\ new \notin Objects(N, md.isdir)
               /\ Placed(M, md, new)
               /\ \A k \in BOOLEAN : Objects(N, k) \subseteq Objects(M, k)
               /\ Objects(M, md.isdir) = Objects(N, md.isdir) \cup {new}
               /\ OthersStay(N, M, md, new)
          /\ kind = "UPDATE" =>
               /\ M.c = [c \in DOMAIN N.c |-> [N.c[c] EXCEPT !.uid = M.c[c].uid]]
               /\ DOMAIN M.f = DOMAIN N.f
               /\ \A f \in DOMAIN N.f : Place(M, FALSE, f) = Place(N, FALSE, f)
          /\ kind = "RENAME" =>
               /\ Placed(M, md, id)
               /\ at[2] \notin DOMAIN Entries(M, md.isdir, md.md_pino)
               /\ \A k \in BOOLEAN : Objects(M, k) \subseteq Objects(N, k)
               /\ OthersStay(N, M, md, id)
          /\ kind = "MOVE" =>
               /\ Placed(M, md, id)
               /\ \A n \in DOMAIN Entries(M, md.isdir, at[1]) :
                    Entries(M, md.isdir, at[1])[n] # id
               /\ \A k \in BOOLEAN : Objects(M, k) \subseteq Objects(N, k)
               /\ OthersStay(N, M, md, id)]_vars

\* a directory that lists something
NotEmpty(N, id) == DOMAIN N.c[id].dirs \cup DOMAIN N.c[id].files # {}

\* the error a request ends with: the return code, or the error of the ACK
ErrorOf(l) ==
  IF l.rc # "0" THEN l.rc
  ELSE IF l.ack.code = "PERMANENT_FAILURE" THEN l.ack.err_no
  ELSE "0"

\* a directory is where it was: same parent, same name, listed by the parent
InPlace(N, M, id) ==
  /\ id \in DOMAIN M.c
  /\ Place(M, TRUE, id) = Place(N, TRUE, id)
  /\ N.c[id].parent \in DOMAIN M.c
  /\ N.c[id].name \in DOMAIN M.c[N.c[id].parent].dirs
  /\ M.c[N.c[id].parent].dirs[N.c[id].name] = id

\* C29: a RENAME or MOVE of a directory onto the name of a directory that is
\* not empty, and a DELETE of a directory that is not empty, fail with
\* ENOTEMPTY and leave the source and the target where they were; an empty
\* target directory is gone after the request and the renamed or moved
\* directory has its name
C29_NotEmptyTarget ==
  [][LET N == CurNs
         M == CurNs'
         md == last'.md
         cmd == md.md_ino
         onto == /\ last'.op = "SET" /\ md.isdir
                 /\ cmd \in DOMAIN N.c /\ md.md_pino \in DOMAIN N.c
                 /\ SetKind(N, md) \in {"RENAME", "MOVE"}
                 /\ md.name \in DOMAIN N.c[md.md_pino].dirs
                 /\ N.c[md.md_pino].dirs[md.name] \in DOMAIN N.c \ {cmd}
                 /\ last'.rc \notin {"EPERM", "EEXIST"}
         tgt == N.c[md.md_pino].dirs[md.name]
         rmdir == /\ last'.op = "DELETE" /\ md.isdir
                  /\ cmd \in DOMAIN N.c /\ md.md_pino \in DOMAIN N.c
                  /\ NotEmpty(N, cmd)
                  /\ last'.rc # "EPERM"
     IN /\ (onto /\ NotEmpty(N, tgt)) =>
             /\ ErrorOf(last') = "ENOTEMPTY"
             /\ InPlace(N, M, cmd)
             /\ InPlace(N, M, tgt)
        /\ (onto /\ ~NotEmpty(N, tgt)) =>
             /\ ErrorOf(last') = "0"
             /\ tgt \notin DOMAIN M.c
             /\ Placed(M, md, cmd)
        /\ rmdir =>
             /\ ErrorOf(last') = "ENOTEMPTY"
             /\ InPlace(N, M, cmd)]_vars

\* C30: a SET with O_EXCL that names a parent in which the name is taken, or
\* that carries an inode, fails with EEXIST and leaves the namespace as it
\* was, whether it is sent for a directory, a regular file or a link (a
\* request that is denied or has no quota left aside)
C30_ExclusiveCreate ==
  [][LET N == CurNs
         md == last'.md
         p == md.md_pino
         taken == md.name \in DOMAIN N.c[p].dirs \cup DOMAIN N.c[p].files
     IN (/\ last'.op = "SET" /\ md.excl
         /\ p \in DOMAIN N.c
         /\ last'.rc \notin {"EPERM", "EDQUOT"}
         /\ (md.md_ino # 0 \/ taken)) =>
          /\ ErrorOf(last') = "EEXIST"
          /\ Namespace' = Namespace
          /\ lastCid' = lastCid /\ lastFid' = lastFid]_vars

\* the caps of the store that other mounts than the sender hold on an inode
OthersCaps(S, md, ino) ==
  {a \in DOMAIN S.caps : S.caps[a].id = ino /\ S.caps[a].clientuuid # md.clientuuid}

\* C32: after a MOVE that succeeded every cap another mount holds on the old
\* parent is in the release that is broadcast, and every other mount with a
\* cap on the new parent is notified by a release or an MD message
C32_MoveReleasesSource ==
  [][LET N == CurNs
         S == CurStore
         md == last'.md
         P1 == Place(N, md.isdir, Ident(md, md.md_ino))[1]
     IN (/\ last'.op = "SET" /\ ~Failed(last')
         /\ ~md.lnk
         /\ Ident(md, md.md_ino) \in Objects(N, md.isdir)
         /\ SetKind(N, md) = "MOVE") =>
          /\ OthersCaps(S, md, P1) \subseteq last'.release
          /\ \A a \in OthersCaps(S, md, md.md_pino) :
               \E b \in last'.release \cup last'.mdsent :
                 S.caps[b].clientuuid = S.caps[a].clientuuid]_vars

\* C33: the caps one LS adds for children are caps on sub-directories of the
\* listed directory whose name does not start with a dot, and there are at
\* most 16 of them
C33_ImplicitCaps ==
  [][LET N == CurNs
         dirs == N.c[last'.md.md_ino].dirs
         added == (DOMAIN mCaps' \ DOMAIN mCaps) \ {last'.authid}
     IN last'.op = "LS" =>
          /\ \A a \in added :
               \E n \in DOMAIN dirs : dirs[n] = mCaps'[a].id /\ ~Hidden(n)
          /\ Cardinality(added) <= ImplicitCapLimit]_vars

----------------------------------------------------------------------------
(* Properties of the permission evaluators *)

\* C35: for an identity that is not root, an ACL that is not mutable leaves
\* neither W nor D in the mode of the cap and grants neither in ValidatePERM,
\* and an ACL with CanNotDelete leaves no D to an identity that is not the
\* owner of the container, in the cap and in ValidatePERM alike
C35_AclRules ==
  last.op = "Evaluate" =>
    /\ (last.acl.HasAcl /\ ~last.acl.IsMutable) =>
         /\ W_OK \notin last.cap /\ D_OK \notin last.cap
         /\ ~last.perm.w /\ ~last.perm.d
    /\ (last.acl.HasAcl /\ last.acl.CanNotDelete /\ last.vid.uid # last.dir.uid) =>
         /\ D_OK \notin last.cap
         /\ ~last.perm.d

----------------------------------------------------------------------------
(* Properties of the quota pass *)

\* the auth-ids the pass that ran last asked the quota of
QuotaChecked == {a \in last'.caps : last'.bySpace[mCaps'[a].clientuuid].ok}

\* the pass that ran last found nothing left for the auth-id
QuotaIsOut(a) ==
  LET avail == last'.bySpace[mCaps'[a].clientuuid]
  IN avail.files = 0 \/ avail.bytes = 0

\* C36: a quota pass of MonitorCaps sends a cap update only for an auth-id
\* whose quota status changed: when nothing is left and the auth-id is not
\* in outofquota, and it is in outofquota afterwards; when something is left
\* again and the auth-id is in outofquota, and it is not afterwards.  An
\* auth-id whose status did not change, with an entry of outofquota younger
\* than an hour or with none, gets no cap update
C36_QuotaBroadcastOnChange ==
  [][last'.op = "MonitorCapsQuota" =>
       /\ last'.sent \subseteq QuotaChecked
       /\ \A a \in QuotaChecked :
            /\ (QuotaIsOut(a) /\ a \notin DOMAIN outofquota) =>
                 a \in last'.sent /\ a \in DOMAIN outofquota'
            /\ (~QuotaIsOut(a) /\ a \in DOMAIN outofquota) =>
                 a \in last'.sent /\ a \notin DOMAIN outofquota'
            /\ (QuotaIsOut(a) /\ a \in DOMAIN outofquota
                   /\ now < outofquota[a] + OutOfQuotaLifetime) => a \notin last'.sent
            /\ (~QuotaIsOut(a) /\ a \notin DOMAIN outofquota) => a \notin last'.sent]_vars

\* a later pass found an auth-id still out of quota and sent nothing for it
C36_Witness ==
  /\ last.op = "MonitorCapsQuota"
  /\ \E a \in last.caps :
       /\ last.bySpace[mCaps[a].clientuuid].ok
       /\ last.bySpace[mCaps[a].clientuuid].files = 0
       /\ a \in DOMAIN outofquota
       /\ outofquota[a] < now
       /\ a \notin last.sent

----------------------------------------------------------------------------
(* Properties of the flush tracker *)

\* the flush map has an entry of the client for the inode
HasEntry(fm, id, client) == id \in DOMAIN fm /\ client \in DOMAIN fm[id]

\* the clients whose entry for the inode lies in the future
Unexpired(fm, id) == {c \in DOMAIN FlushAt(fm, id) : now - fm[id][c] < 0}

----------------------------------------------------------------------------
(* Properties of the lock table *)

\* the tracker of an inode, empty when the table has none
Tracker(lm, ino) == IF ino \in DOMAIN lm THEN lm[ino] ELSE EmptyTracker

\* the ranges of other owners a request conflicts with
OtherConflicts(t, r) ==
  {x \in (IF r.type = "WRLCK" THEN t.rlocks \cup t.wlocks
          ELSE IF r.type = "RDLCK" THEN t.wlocks ELSE {}) :
     x.owner # r.owner /\ Intersects(r.start, WireLen(r.len), x.start, x.len)}

\* the tracker the last lock request worked on
GrantTracker ==
  IF last.op = "SetLkw" THEN last.tracker ELSE Tracker(lockmap, lockreq.ino)

\* C16: no installed write range intersects a read or write range of another
\* holder, every installed range is infinite (len = -1) or has a positive
\* length, and a lock granted for a request with len = 0 is the infinite range
\* from its start.
C16_NoConflictingRanges ==
  /\ \A i \in DOMAIN lockmap :
       /\ \A w \in lockmap[i].wlocks : \A x \in lockmap[i].rlocks \cup lockmap[i].wlocks :
            ~SameHolder(x, w.pid, w.owner) => ~Intersects(w.start, w.len, x.start, x.len)
       /\ \A x \in lockmap[i].rlocks \cup lockmap[i].wlocks : x.len = -1 \/ x.len > 0
  /\ (/\ last.op \in {"SetLk", "SetLkw"} /\ last.err_no = "0"
      /\ lockreq # NoWait /\ waiting = NoWait
      /\ lockreq.type # "UNLCK" /\ lockreq.len = 0) =>
       \E x \in (IF lockreq.type = "WRLCK" THEN GrantTracker.wlocks
                  ELSE GrantTracker.rlocks) :
         /\ SameHolder(x, lockreq.pid, lockreq.owner)
         /\ x.start = lockreq.start /\ x.len = -1

\* a read range and a write range of two holders are installed side by side, and
\* a lock asked for with len = 0 is held as an infinite range
C16_Witness ==
  \E i \in DOMAIN lockmap :
    /\ \E w \in lockmap[i].wlocks : \E x \in lockmap[i].rlocks : w.owner # x.owner
    /\ \E x \in lockmap[i].rlocks \cup lockmap[i].wlocks : x.len = -1

\* C17: a SETLK or SETLKW request that conflicts with a lock of another owner
\* when it is answered is answered EAGAIN and leaves the ranges of the inode as
\* they were, SETLKW answers at the latest with its 8th try, and after
\* dropLocks(o) no request conflicts that conflicted with locks of o only.
C17_BusyAndRetry ==
  [][/\ (/\ last'.op \in {"SetLk", "SetLkw"}
         /\ waiting' = NoWait
         /\ OtherConflicts(Tracker(lockmap, lockreq'.ino), lockreq') # {}) =>
          /\ last'.err_no = "EAGAIN"
          /\ Tracker(lockmap', lockreq'.ino) = Tracker(lockmap, lockreq'.ino)
          /\ last'.op = "SetLkw" => last'.tracker = Tracker(lockmap, lockreq'.ino)
     /\ waiting' # NoWait => waiting'.tries < SetlkwTries
     /\ last'.op = "SetLkw" => last'.tries <= SetlkwTries
     /\ last'.op = "dropLocks" =>
          \A r \in LockRequests :
            LET t == Tracker(lockmap, r.ino)
                busy == Conflicts(t, r.type, r.start, WireLen(r.len), r.pid, r.owner)
                others == {x \in t.rlocks \cup t.wlocks :
                             ~SameHolder(x, r.pid, r.owner)
                             /\ Intersects(r.start, WireLen(r.len), x.start, x.len)
                             /\ (r.type = "WRLCK" \/ x \in t.wlocks)}
            IN (busy /\ \A x \in others : x.owner = last'.owner) =>
                 ~Conflicts(Tracker(lockmap', r.ino), r.type, r.start, WireLen(r.len),
                            r.pid, r.owner)]_vars

----------------------------------------------------------------------------
(* Properties of the capability store *)

\* C26: after a heartbeat that was not dropped, every cap it asked to extend
\* that is still stored expires later by the delta it asked for, and no cap it
\* asked to revoke is stored, the first heartbeat of a session included
C26_ExtensionAndRevocation ==
  [][(last'.op = "Heartbeat" /\ ~last'.dropped) =>
       /\ \A a \in DOMAIN last'.ext \cap DOMAIN mCaps \cap DOMAIN mCaps' :
            mCaps'[a].vtime = mCaps[a].vtime + last'.ext[a]
       /\ \A a \in last'.rev : a \notin DOMAIN mCaps']_vars

\* the auth-ids of the caps pinned to an inode
Pinned(i) == {a \in SetAt(mInodeCaps, i) \cap DOMAIN mCaps : mCaps[a].id = i}

\* the recipients the broadcast rule names for a request: the caps of the inode
\* (the one the request's cap is pinned to, the parent without such a cap)
\* without the request's auth-id and without the caps of the request's mount
RuleRecipients(md) ==
  LET c0 == Get(CurStore, md.authid)
      i == IF c0.id # 0 THEN c0.id ELSE md.md_pino
  IN {a \in SetAt(mInodeCaps, i) \cap DOMAIN mCaps :
        a # md.authid /\ mCaps[a].clientuuid # md.clientuuid}

\* C1: every cap of the primary map is in the by-client set of its client id and
\* in the by-inode set of its inode, and the smallest key of the expiry index is
\* not larger than its vtime.
C1_CapIndexInvariant ==
  \A a \in DOMAIN mCaps :
    /\ a \in SetAt(mClientCaps, mCaps[a].clientid)
    /\ a \in SetAt(mInodeCaps, mCaps[a].id)
    /\ mTimeOrderedCap # <<>>
    /\ Head(mTimeOrderedCap).t <= mCaps[a].vtime

\* C3: when Caps::Delete(i) has returned 0, no auth-id of a cap that was pinned
\* to i is left in the primary map, a by-client set, the by-inode map or the
\* expiry index, and i is in no by-client-inode set of their clients.
C3_DeleteClearsEveryIndex ==
  [][(last'.op = "DELETE" /\ last'.delrc = "0") =>
       \A a \in Pinned(last'.md.md_ino) :
         /\ a \notin DOMAIN mCaps'
         /\ \A c \in DOMAIN mClientCaps' : a \notin mClientCaps'[c]
         /\ last'.md.md_ino \notin SetAt(mClientInoCaps', mCaps[a].clientid)
         /\ \A i \in DOMAIN mInodeCaps' : a \notin mInodeCaps'[i]
         /\ \A k \in 1 .. Len(mTimeOrderedCap') : mTimeOrderedCap'[k].a # a]_vars

\* C4: the caps a BroadcastRelease or a BroadcastDeletion sends to are the caps
\* of the inode without the auth-id of the request and without the caps of the
\* mount that sent it, with a stored cap or with the ACL fallback.
C4_BroadcastRecipients ==
  [][/\ (last'.op = "SET" /\ last'.kind # "file" /\ last'.rc = "0") =>
          last'.release = RuleRecipients(last'.md)
     /\ (last'.op = "DELETE" /\ last'.rc = "0") =>
          /\ last'.release = RuleRecipients(last'.md)
          /\ last'.deletion = RuleRecipients(last'.md)]_vars

\* C5: a BroadcastMD sends at most one MD message per client uuid, none to the
\* auth-id of the request and none to a cap of the mount that sent it.
C5_OneMDPerMount ==
  (last.op = "SET" /\ last.kind = "file" /\ last.rc = "0") =>
    /\ \A a \in last.mdsent : \A b \in last.mdsent :
         mCaps[a].clientuuid = mCaps[b].clientuuid => a = b
    /\ \A a \in last.mdsent :
         a # last.md.authid /\ mCaps[a].clientuuid # last.md.clientuuid

C27_FallbackToValidatePERM ==
  [][LET md == last'.md
         cap == Get(CurStore, md.authid)
         stale == \/ cap.id = 0
                  \/ cap.id \notin {md.md_ino, md.md_pino}
                  \/ cap.vtime <= now + RevocationMargin
         enough == BitAnd(cap.mode, last'.mode) = last'.mode
     IN last'.op \in {"SET", "DELETE"} =>
          /\ stale => (last'.rc = "0" <=> last'.perm)
          /\ (~stale /\ ~enough) => last'.rc = "EPERM"
          /\ (~stale /\ enough) => last'.rc = "0"]_vars

\* the mounts with a session, other than the sender of a request, that hold a
\* cap on an inode
OtherHolders(md, ino) ==
  {mCaps[a].clientuuid : a \in {b \in DOMAIN mCaps : /\ mCaps[b].id = ino
                                                     /\ mCaps[b].clientuuid # md.clientuuid
                                                     /\ mCaps[b].clientuuid \in DOMAIN mUUIDView}}

\* C31: after a DELETE that succeeded no cap of the store is pinned to the
\* deleted inode, and every other mount that held a cap on the parent was sent
\* a release of the cap and a deletion of the entry, with a stored cap of the
\* sender or with the ACL fallback
C31_DeleteInvalidates ==
  [][(last'.op = "DELETE" /\ last'.rc = "0") =>
       /\ \A a \in DOMAIN mCaps' : mCaps'[a].id # last'.md.md_ino
       /\ \A u \in OtherHolders(last'.md, last'.md.md_pino) :
            /\ \E m \in last'.msgs : m.type = "LEASE" /\ m.uuid = u /\ m.ino = last'.md.md_pino
            /\ \E m \in last'.msgs : m.type = "DENTRY" /\ m.uuid = u
                                       /\ m.ino = last'.md.md_pino]_vars

\* every permission bit of the mode of a cap
AllPermissions == R_OK + X_OK + W_OK + D_OK + M_OK + C_OK + SA_OK + U_OK + SU_OK

\* the mounts of uid 0
RootUUIDs == {m.clientuuid : m \in {n \in Mounts : n.mode = RootMode}}

\* C34: the cap a GET stores for a mount of root carries every permission bit:
\* R, X, W, D, M, C, SA, U and SU
C34_RootHasEveryBit ==
  [][(last'.op = "GET" /\ last'.md.clientuuid \in RootUUIDs) =>
       /\ last'.authid \in DOMAIN mCaps'
       /\ BitAnd(mCaps'[last'.authid].mode, AllPermissions) = AllPermissions]_vars

\* the auth-ids of the caps of a mount
CapsOf(uuid) == {a \in DOMAIN mCaps : mCaps[a].clientuuid = uuid}

\* C38: after a Dropcaps of a uuid that returned 0 the store holds no cap of
\* the uuid; the auth-id of each of its caps is in no by-inode set, in no
\* by-client set and not in the expiry index; no by-inode and no by-client set
\* is empty; and the mount was sent a release for each of the caps
C38_DropcapsClearsMount ==
  [][(last'.op = "Dropcaps" /\ last'.rc = "0") =>
       /\ \A a \in DOMAIN mCaps' : mCaps'[a].clientuuid # last'.uuid
       /\ \A a \in CapsOf(last'.uuid) :
            /\ \A i \in DOMAIN mInodeCaps' : a \notin mInodeCaps'[i]
            /\ \A c \in DOMAIN mClientCaps' : a \notin mClientCaps'[c]
            /\ \A k \in 1 .. Len(mTimeOrderedCap') : mTimeOrderedCap'[k].a # a
            /\ \E m \in last'.msgs : /\ m.type = "LEASE" /\ m.uuid = last'.uuid
                                      /\ m.ino = mCaps[a].id
       /\ \A i \in DOMAIN mInodeCaps' : mInodeCaps'[i] # {}
       /\ \A c \in DOMAIN mClientCaps' : mClientCaps'[c] # {}]_vars

\* C39: a heartbeat of a mount leaves every cap of another mount in the store
\* and its vtime as it was, whatever auth-ids the heartbeat asks to extend or
\* to revoke
C39_HeartbeatOwnCapsOnly ==
  [][last'.op = "Heartbeat" =>
       \A a \in DOMAIN mCaps :
         mCaps[a].clientuuid # last'.uuid =>
           /\ a \in DOMAIN mCaps'
           /\ mCaps'[a].vtime = mCaps[a].vtime]_vars

\* C13: when a mount that holds a valid cap on a directory has created a child
\* of it, every other connected mount with a cap on that directory has been
\* sent exactly one MD message and a LEASE release for the directory, and the
\* creating mount has been sent nothing.
C13_CrossMountInvalidation ==
  (/\ last.op = "SET" /\ last.rc = "0" /\ last.kind \in {"file", "mkdir"}
   /\ last.md.md_ino = 0 /\ last.cap # "") =>
    /\ \A u \in (DOMAIN mUUIDView) \ {last.md.clientuuid} :
         (\E a \in Pinned(last.md.md_pino) : mCaps[a].clientuuid = u) =>
           /\ Cardinality({m \in last.msgs : m.type = "MD" /\ m.uuid = u}) = 1
           /\ \E m \in last.msgs :
                m.type = "LEASE" /\ m.uuid = u /\ m.ino = last.md.md_pino
    /\ \A m \in last.msgs : m.uuid # last.md.clientuuid

\* C15: an expiry sweep of MonitorCaps at time T pops every cap whose vtime is
\* not later than T and removes no cap whose vtime is later than T, whatever
\* happened to the vtime of a cap after it was inserted.
C15_ExpirySweep ==
  [][last'.op = "MonitorCaps" =>
       \A a \in DOMAIN mCaps :
         IF mCaps[a].vtime <= now THEN a \notin DOMAIN mCaps'
         ELSE a \in DOMAIN mCaps']_vars

----------------------------------------------------------------------------
(* Properties of the client registry *)

\* C25: a heartbeat older than the offline window changes neither the session
\* map nor the uuid view nor a cap, and no message answers it
C25_DroppedHeartbeatIsIgnored ==
  [][(last'.op = "Heartbeat" /\ last'.dropped) =>
       /\ mMap' = mMap
       /\ mUUIDView' = mUUIDView
       /\ capVars' = capVars
       /\ last'.msgs = {}]_vars

\* the sessions the last sweep set to EVICTED
Evicted == IF last.op = "MonitorHeartBeat" THEN last.evicted ELSE {}

\* the state the windows give to a heartbeat of age d
WindowState(d) ==
  IF d <= HeartBeatWindow THEN "ONLINE"
  ELSE IF d <= HeartBeatOfflineWindow THEN "VOLATILE"
  ELSE IF d <= HeartBeatRemoveWindow THEN "OFFLINE"
  ELSE "EVICTED"

\* C2: the session map and the uuid view are a bijection: every session is
\* found under its heartbeat uuid in the uuid view, and every entry of the uuid
\* view names a session of the map whose heartbeat uuid is the key.
C2_RegistryBijection ==
  /\ \A id \in DOMAIN mMap :
       /\ mMap[id].uuid \in DOMAIN mUUIDView
       /\ mUUIDView[mMap[id].uuid] = id
  /\ \A u \in DOMAIN mUUIDView :
       /\ mUUIDView[u] \in DOMAIN mMap
       /\ mMap[mUUIDView[u]].uuid = u

\* C7: after a sweep every session of the registry has the state its heartbeat
\* age gives it (ONLINE, VOLATILE or OFFLINE), and every session the sweep set
\* to EVICTED (age beyond the remove window, shutdown, old protocol) is gone
\* from the registry.
C7_StateAfterSweep ==
  last.op = "MonitorHeartBeat" =>
    /\ \A id \in DOMAIN mMap :
         /\ mMap[id].state = WindowState(HeartbeatAge(mMap[id].clock))
         /\ mMap[id].state # "EVICTED"
    /\ \A e \in Evicted : e.id \notin DOMAIN mMap

\* C8: when a sweep has removed the session of a uuid, the lock table holds no
\* read or write lock owned by that uuid.
C8_NoLocksOfEvicted ==
  \A e \in Evicted : e.id \notin DOMAIN mMap => e.uuid \notin LockOwners

\* C9: every session a sweep evicts is sent exactly one EVICT message with a
\* reason, and is removed from the session map and from the uuid view.
C9_EvictMessageAndRemoval ==
  \A e \in Evicted :
    /\ Cardinality({m \in last.msgs : m.type = "EVICT" /\ m.uuid = e.uuid /\ m.to = e.id}) = 1
    /\ \A m \in last.msgs : m.uuid = e.uuid => m.reason # ""
    /\ e.id \notin DOMAIN mMap
    /\ e.uuid \notin DOMAIN mUUIDView

\* C10: a sweep calls dropLocks exactly once for a session that enters OFFLINE
\* from another state, and not at all for a session that was OFFLINE before
\* the sweep and stays OFFLINE.
C10_DropLocksOnce ==
  last.op = "MonitorHeartBeat" =>
    \A id \in DOMAIN last.pre :
      last.drops[id] = (IF id \in last.offline /\ last.pre[id] # "OFFLINE" THEN 1 ELSE 0)

\* a sweep found a session OFFLINE that holds a lock again, kept it OFFLINE and
\* left its lock alone
C10_Witness ==
  /\ last.op = "MonitorHeartBeat"
  /\ \E id \in last.offline \cap DOMAIN mMap :
       /\ last.pre[id] = "OFFLINE"
       /\ last.drops[id] = 0
       /\ mMap[id].uuid \in LockOwners

====
